---------------------------- MODULE Spec2Model ----------------------------
(***************************************************************************)
(* A model of claude-code-explorer: the transcript reader, the path codec  *)
(* and project resolution, and the session correlator, as they are written *)
(* in api/src/routes/projects.ts and their twins in lib/.                  *)
(*                                                                         *)
(* Conventions.                                                            *)
(*  - A string the code inspects character by character (a path, a         *)
(*    directory name) is a sequence of one-character strings.              *)
(*  - A point in time is a positive integer (milliseconds since the        *)
(*    epoch, scaled).  An ISO-8601 string is represented by the instant    *)
(*    it denotes, so `new Date(s)` and `toISOString()` are modelled by     *)
(*    NewDate and ToISOString below, which keep their failure cases        *)
(*    (Invalid Date, RangeError).                                          *)
(*  - A JavaScript `undefined` of a number- or date-valued field is the    *)
(*    integer Undefined; of a string-valued field it is the string "none". *)
(*  - A handler that awaits is one action per await; between two of its   *)
(*    steps another process may change the files it reads, at most         *)
(*    MaxWrites (a project directory: MaxDirWrites) times.                 *)
(***************************************************************************)
EXTENDS Integers, Sequences, FiniteSets, TLC

VARIABLES
    \* ---- transcript reader --------------------------------------------
    fileState,    \* "ok" | "unreadable" | "missing": the session's .jsonl file
    transcript,   \* the file's lines, in file order
    now,          \* the wall clock when the request is served (new Date())
    bounds,       \* what getSessionBounds returned to the handler
    messages,     \* what getSessionMessages returned to the handler
    detail,       \* the response of GET /:encodedPath/sessions/:sessionId
    detailPc,     \* the await the handler of that request is suspended at
    toolWrites,   \* changes the session tool made to the file during the request
    messageList,  \* the response of GET /:encodedPath/sessions/:sessionId/messages
    messageScan,  \* the await the handler of that request is suspended at, and
                  \* its query
    \* ---- session correlator -------------------------------------------
    todosStore,   \* the directory ~/.claude/todos
    historyStore, \* the directory ~/.claude/file-history/{sessionId}
    debugStore,   \* the directory ~/.claude/debug
    plansStore,   \* the directory ~/.claude/plans
    probes,       \* the promise of each probe of correlateSessionData, and the
                  \* local values of a probe suspended at an await
    storeWrites,  \* changes other processes made to the stores during the call
    order,        \* the probes in the order they completed
    corr,         \* the promise correlateSessionData returned
    \* ---- project listing ----------------------------------------------
    configFile,    \* the file ~/.claude.json
    projectsStore, \* the directory ~/.claude/projects
    pathLookup,    \* the lookup GET /projects built from the config
    query,         \* the query of the request GET /projects served
    listing,       \* the response of GET /projects
    scan,          \* the local values of the handler of GET /projects
    treeWrites,    \* changes other processes made to the store and the config
                   \* during the request
    \* ---- path codec ---------------------------------------------------
    rtPath,         \* the path given to encodeProjectPath
    rtEncoded,      \* what encodeProjectPath returned
    rtDecoded,      \* what decodeProjectPath returned for it
    codecPc,      \* "idle" | "start" | "encoded" | "decoded"
    \* ---- application settings -----------------------------------------
    cwd,              \* process.cwd(): the directory the server was started in
    appSettings,      \* the text of the file at CONFIG_PATH
    settingsResponse, \* the response of PUT /api/settings
    put,              \* the await the handler of PUT is suspended at, and its body
    savedSettings,    \* the response of GET /api/settings
    settingsScan,     \* the await the handler of GET is suspended at
    \* ---- prompt history -----------------------------------------------
    historyFile,   \* the file ~/.claude/history.jsonl
    historyScan,   \* the await the handler of GET /history is suspended at
    historyPage,   \* the response of GET /history
    \* ---- session listing and activity --------------------------------
    sessionDir,    \* the project's directory under ~/.claude/projects
    clock,         \* the wall clock (new Date())
    sessionLists,  \* the last response of GET /:encodedPath/sessions, per type filter
    activity,      \* the last response of GET /:encodedPath/activity
    sessionScan,   \* the local values of the handler of either request
    dirWrites,     \* changes other processes made to the project's directory
    sessionRequests, \* requests for a listing or a rollup received so far
    \* ---- display path, file browsing, config -------------------------
    dpPath,         \* the path given to getDisplayPath
    dpResult,       \* what getDisplayPath returned
    fileRequest,    \* the last request for a file or a directory listing
    fileResponse,   \* its response
    fileTree,       \* what is at each location of the file system
    browse,         \* the await the handler of that request is suspended at
    fileWrites,     \* changes other processes made to the location during the request
    rawConfig,      \* the parsed document of ~/.claude.json, as GET /config reads it
    configResponse, \* the response of GET /config
    configPc,       \* the await the handler of GET /config is suspended at
    configWrites    \* rewrites of ~/.claude.json by other processes during the request

readerVars ==
    <<fileState, transcript, now, bounds, messages, detail, detailPc, toolWrites,
      messageList, messageScan>>
corrVars ==
    <<todosStore, historyStore, debugStore, plansStore, probes, storeWrites, order, corr>>

projectVars == <<configFile, projectsStore, pathLookup, query, listing, scan, treeWrites>>
codecVars == <<rtPath, rtEncoded, rtDecoded, codecPc>>

settingsVars == <<cwd, appSettings, settingsResponse, put, savedSettings, settingsScan>>
promptVars == <<historyFile, historyScan, historyPage>>

sessionVars ==
    <<sessionDir, clock, sessionLists, activity, sessionScan, dirWrites, sessionRequests>>
browseVars == <<fileRequest, fileResponse, fileTree, browse, fileWrites>>
configVars == <<rawConfig, configResponse, configPc, configWrites>>
filesVars == <<dpPath, dpResult, browseVars, configVars>>

vars ==
    <<readerVars, corrVars, projectVars, codecVars, settingsVars, promptVars, sessionVars,
      filesVars>>

---------------------------------------------------------------------------
(* Bounds of the model *)

\* Longest transcript, in lines.
MaxLines == 3
\* Latest instant a transcript line is stamped with.
MaxTs == 2
\* Longest real path of a config key and longest directory name, in characters.
MaxNameLen == 2
\* Most keys of the config's projects mapping.
MaxKeys == 2
\* Longest path put through the codec, in characters.
MaxPathLen == 4
\* Most directories of the projects store when the listing is sorted and paged.
MaxDirs == 2
\* Most changes another process makes to the files while a request is served.
MaxWrites == 2
\* Most requests for a session listing in a behaviour, most requests for an
\* activity rollup, and most changes another process makes to the project's
\* directory while they are served.
MaxRequests == 3
MaxRollups == 1
MaxDirWrites == 1

\* Most requests the core receives in one run.
MaxCoreRequests == 2

---------------------------------------------------------------------------
(* Values *)

\* `undefined` (or another falsy value) of a numeric or date field.
Undefined == 0
\* A `timestamp` value that `new Date()` cannot parse.
Unparsable == -1
\* An Invalid Date: its getTime() is NaN.
InvalidDate == -1

NoModel == "none"
NoType == "none"
Snapshot == "file-history-snapshot"

Types == {NoType, "user", "assistant", Snapshot}
Timestamps == {Undefined, Unparsable} \cup (1..MaxTs)
Models == {NoModel, "m1"}

\* A line that is empty or blank.
BlankLine == [kind |-> "blank", type |-> NoType, timestamp |-> Undefined, model |-> NoModel]
\* A line JSON.parse throws on (a cut-off write, for instance).
MalformedLine == [kind |-> "malformed", type |-> NoType, timestamp |-> Undefined, model |-> NoModel]
\* A line holding a JSON object: its `type`, its `timestamp`, its `message.model`.
JsonLine(ty, ts, m) == [kind |-> "json", type |-> ty, timestamp |-> ts, model |-> m]

\* The lines a transcript is made of; only assistant records carry a model.
Line ==
    {BlankLine, MalformedLine}
    \cup {JsonLine(ty, ts, NoModel) : ty \in Types, ts \in Timestamps}
    \cup {JsonLine("assistant", ts, m) : ts \in Timestamps, m \in Models \ {NoModel}}

Transcripts == UNION {[1..n -> Line] : n \in 0..MaxLines}

\* The instants at which a request may be served: after every line was written.
NowTimes == {MaxTs + 1, MaxTs + 2}

---------------------------------------------------------------------------
(* Date *)

\* new Date(v) for a truthy v: the instant, or Invalid Date.
NewDate(v) == IF v = Unparsable THEN InvalidDate ELSE v

\* isNaN(d.getTime())
IsInvalid(d) == d = InvalidDate

\* d.toISOString() throws a RangeError on an Invalid Date.
ToISOStringThrows(d) == IsInvalid(d)
ToISOString(d) == d

---------------------------------------------------------------------------
(* The config document ~/.claude.json *)

\* The config document getClaudeConfig falls back to: {}.
EmptyDoc == [isNull |-> FALSE, hasProjects |-> FALSE, projects |-> <<>>]

\* The file ~/.claude.json when it is missing or cannot be parsed, and when
\* it holds the JSON text `null`.
NoConfigFile ==
    [readable |-> FALSE, isNull |-> FALSE, hasProjects |-> FALSE, projects |-> <<>>]
NullConfigFile ==
    [readable |-> TRUE, isNull |-> TRUE, hasProjects |-> FALSE, projects |-> <<>>]

\* getClaudeConfig: what JSON.parse returns for the file (null for `null`),
\* or {} when it cannot be read or parsed.
GetClaudeConfig(file) ==
    IF file.readable
    THEN [isNull |-> file.isNull, hasProjects |-> file.hasProjects,
          projects |-> file.projects]
    ELSE EmptyDoc

\* config.projects of a document that is null: a TypeError.
BuildPathLookupThrows(doc) == doc.isNull

---------------------------------------------------------------------------
(* Transcript reader *)

\* content.trim().split('\n').filter(l => l.trim())
SplitLines(content) == SelectSeq(content, LAMBDA l : l.kind # "blank")

\* The state before the loop of getSessionBounds.
BoundsStart(nowT) ==
    [startTime |-> nowT, endTime |-> Undefined, messageCount |-> 0, model |-> NoModel]

\* getSessionBounds with the snapshot skip forgotten: every parsed line counts.
BoundsStepCountsSnapshots(acc, line, i) ==
    IF line.kind = "malformed" THEN acc
    ELSE LET hasTs == line.timestamp # Undefined
             ts    == NewDate(line.timestamp)
         IN  [startTime    |-> IF i = 0 /\ hasTs THEN ts ELSE acc.startTime,
              endTime      |-> IF hasTs THEN ts ELSE acc.endTime,
              messageCount |-> acc.messageCount + 1,
              model        |-> IF line.type = "assistant" /\ line.model # NoModel
                               THEN line.model ELSE acc.model]

\* One iteration of the loop of getSessionBounds, on line i (from 0).
BoundsStep(acc, line, i) ==
    IF line.kind = "malformed" THEN acc                 \* JSON.parse throws: caught
    ELSE IF line.type = Snapshot THEN acc               \* continue
    ELSE LET hasTs == line.timestamp # Undefined        \* parsed.timestamp ? ... : null
             ts    == NewDate(line.timestamp)
         IN  [startTime    |-> IF i = 0 /\ hasTs THEN ts ELSE acc.startTime,
              endTime      |-> IF hasTs THEN ts ELSE acc.endTime,
              messageCount |-> acc.messageCount + 1,
              model        |-> IF line.type = "assistant" /\ line.model # NoModel
                               THEN line.model ELSE acc.model]

RECURSIVE BoundsLoop(_, _, _)
BoundsLoop(lines, i, acc) ==
    IF i >= Len(lines) THEN acc
    ELSE BoundsLoop(lines, i + 1, BoundsStep(acc, lines[i + 1], i))

\* A getSessionBounds whose degraded result carries no start time.
GetSessionBoundsNoStart(state, content, nowT) ==
    IF state # "ok" THEN [BoundsStart(nowT) EXCEPT !.startTime = Undefined]
    ELSE BoundsLoop(SplitLines(content), 0, BoundsStart(nowT))

\* getSessionBounds: a file that cannot be read gives the degraded result.
GetSessionBounds(state, content, nowT) ==
    IF state # "ok" THEN BoundsStart(nowT)
    ELSE BoundsLoop(SplitLines(content), 0, BoundsStart(nowT))

\* Whether the loop of getSessionMessages pushes a message for the line.
IsMessageLine(line) ==
    /\ line.kind = "json"
    /\ line.type # NoType /\ line.type # Snapshot
    /\ line.timestamp # Undefined
    /\ ~IsInvalid(NewDate(line.timestamp))

\* The record getSessionMessages pushes for a line.
ToMessage(line) ==
    [type |-> line.type, timestamp |-> ToISOString(NewDate(line.timestamp)),
     model |-> line.model]

RECURSIVE MessagesLoop(_)
MessagesLoop(lines) ==
    IF lines = <<>> THEN <<>>
    ELSE (IF IsMessageLine(Head(lines)) THEN <<ToMessage(Head(lines))>> ELSE <<>>)
         \o MessagesLoop(Tail(lines))

\* getSessionMessages: a file that cannot be read gives no message.
GetSessionMessages(state, content) ==
    IF state # "ok" THEN <<>> ELSE MessagesLoop(SplitLines(content))

\* getSessionMetadata: the model of the last message that carries one.
RECURSIVE MetadataModel(_, _)
MetadataModel(msgs, model) ==
    IF msgs = <<>> THEN model
    ELSE MetadataModel(Tail(msgs),
                       IF Head(msgs).model # NoModel THEN Head(msgs).model ELSE model)

\* The responses of GET /:encodedPath/sessions/:sessionId.
NotFound == [status |-> 404, startTime |-> Undefined, endTime |-> Undefined,
             messageCount |-> Undefined, duration |-> Undefined, model |-> NoModel,
             metadataModel |-> NoModel]
InternalError == [status |-> 500, startTime |-> Undefined, endTime |-> Undefined,
                  messageCount |-> Undefined, duration |-> Undefined, model |-> NoModel,
                  metadataModel |-> NoModel]

\* res.json({...}) from the bounds and the messages the handler holds; a
\* toISOString() that throws is caught by the handler: the 500.
SessionDetailResponse(b, msgs) ==
    IF ToISOStringThrows(b.startTime) THEN InternalError
    ELSE IF b.endTime # Undefined /\ ToISOStringThrows(b.endTime) THEN InternalError
    ELSE [status        |-> 200,
          startTime     |-> ToISOString(b.startTime),
          endTime       |-> IF b.endTime # Undefined THEN ToISOString(b.endTime)
                            ELSE Undefined,
          messageCount  |-> b.messageCount,
          duration      |-> IF b.endTime # Undefined THEN b.endTime - b.startTime
                            ELSE Undefined,
          model         |-> b.model,
          metadataModel |-> MetadataModel(msgs, NoModel)]

NotRead == [status |-> 0]

\* The handler of the message listing, before the request.
NoMessageQuery == [type |-> "all", limit |-> Undefined, offset |-> Undefined]
NotListingMessages == [pc |-> "idle", query |-> NoMessageQuery]

ReaderStart ==
    /\ fileState \in {"ok", "unreadable", "missing"}
    /\ transcript \in Transcripts
    /\ (fileState # "ok" => transcript = <<>>)
    /\ now \in NowTimes
    /\ bounds = NotRead
    /\ messages = <<>>
    /\ detail = NotRead
    /\ detailPc = "idle"
    /\ toolWrites = 0
    /\ messageList = NotRead /\ messageScan = NotListingMessages

\* GET /:encodedPath/sessions/:sessionId arrives: the handler runs up to
\* `await getClaudeConfig()`.
GetSessionDetail ==
    /\ detailPc = "idle"
    /\ detailPc' = "config"
    /\ UNCHANGED <<fileState, transcript, now, bounds, messages, detail, toolWrites,
                   messageList, messageScan>>
    /\ UNCHANGED <<corrVars, projectVars, codecVars, settingsVars, promptVars, sessionVars, filesVars>>

\* The config is read and the path resolved; the handler awaits
\* stat(filePath).  On a document that is null buildPathLookup throws and
\* the catch answers 500.
DetailConfigRead ==
    /\ detailPc = "config"
    /\ IF BuildPathLookupThrows(GetClaudeConfig(configFile))
       THEN detail' = InternalError /\ detailPc' = "done"
       ELSE detail' = detail /\ detailPc' = "stat"
    /\ UNCHANGED <<fileState, transcript, now, bounds, messages, toolWrites, messageList, messageScan>>
    /\ UNCHANGED <<corrVars, projectVars, codecVars, settingsVars, promptVars, sessionVars, filesVars>>

\* stat settles: a file that is missing is the 404, and nothing is read;
\* otherwise getSessionBounds is called and awaits its readFile.
DetailStat ==
    /\ detailPc = "stat"
    /\ IF fileState = "missing"
       THEN detail' = NotFound /\ detailPc' = "done"
       ELSE detail' = detail /\ detailPc' = "bounds"
    /\ UNCHANGED <<fileState, transcript, now, bounds, messages, toolWrites, messageList, messageScan>>
    /\ UNCHANGED <<corrVars, projectVars, codecVars, settingsVars, promptVars, sessionVars, filesVars>>

\* The readFile of getSessionBounds settles; getSessionMetadata is called
\* and getSessionMessages awaits a second readFile of the same file.
DetailBounds ==
    /\ detailPc = "bounds"
    /\ bounds' = GetSessionBounds(fileState, transcript, now)
    /\ detailPc' = "metadata"
    /\ UNCHANGED <<fileState, transcript, now, messages, detail, toolWrites, messageList, messageScan>>
    /\ UNCHANGED <<corrVars, projectVars, codecVars, settingsVars, promptVars, sessionVars, filesVars>>

\* The readFile of getSessionMessages settles; getCorrelatedData is awaited.
DetailMetadata ==
    /\ detailPc = "metadata"
    /\ messages' = GetSessionMessages(fileState, transcript)
    /\ detailPc' = "correlated"
    /\ UNCHANGED <<fileState, transcript, now, bounds, detail, toolWrites, messageList, messageScan>>
    /\ UNCHANGED <<corrVars, projectVars, codecVars, settingsVars, promptVars, sessionVars, filesVars>>

\* getCorrelatedData settles and the response is sent.
DetailRespond ==
    /\ detailPc = "correlated"
    /\ detail' = SessionDetailResponse(bounds, messages)
    /\ detailPc' = "done"
    /\ UNCHANGED <<fileState, transcript, now, bounds, messages, toolWrites, messageList, messageScan>>
    /\ UNCHANGED <<corrVars, projectVars, codecVars, settingsVars, promptVars, sessionVars, filesVars>>

\* What the session tool appends to a transcript: a record, or the
\* beginning of one (a write that is not finished).
AppendedLines ==
    {JsonLine("user", MaxTs, NoModel), JsonLine("assistant", MaxTs, "m1"), MalformedLine}

\* The session tool, another process, appends to the transcript or removes
\* it while a request for the session is being served.
SessionToolWrites ==
    /\ detailPc \notin {"idle", "done"} \/ messageScan.pc = "readFile"
    /\ toolWrites < MaxWrites
    /\ toolWrites' = toolWrites + 1
    /\ \/ /\ fileState = "ok" /\ Len(transcript) < MaxLines
          /\ \E line \in AppendedLines : transcript' = Append(transcript, line)
          /\ fileState' = fileState
       \/ /\ fileState # "missing"
          /\ fileState' = "missing" /\ transcript' = <<>>
    /\ UNCHANGED <<now, bounds, messages, detail, detailPc, messageList, messageScan>>
    /\ UNCHANGED <<corrVars, projectVars, codecVars, settingsVars, promptVars, sessionVars, filesVars>>

---------------------------------------------------------------------------
(* Strings *)

Min(a, b) == IF a <= b THEN a ELSE b

\* s.startsWith(p)
StartsWith(s, p) == Len(p) <= Len(s) /\ SubSeq(s, 1, Len(p)) = p
\* s.endsWith(x)
EndsWith(s, x) == Len(x) <= Len(s) /\ SubSeq(s, Len(s) - Len(x) + 1, Len(s)) = x
\* s.includes(x)
Includes(s, x) == \E i \in 0..(Len(s) - Len(x)) : SubSeq(s, i + 1, i + Len(x)) = x
\* s.slice(0, n)
SliceTo(s, n) == SubSeq(s, 1, Min(n, Len(s)))

DotJson == <<".", "j", "s", "o", "n">>
DotMd == <<".", "m", "d">>
Digits == {"0", "1", "2", "3", "4", "5", "6", "7", "8", "9"}

---------------------------------------------------------------------------
(* Session correlator: the four store probes *)

\* What a probe's promise settles with: a value, or a rejection (it threw).
Returned(v) == [threw |-> FALSE, value |-> v]
Threw == [threw |-> TRUE, value |-> <<>>]

\* The promise of a probe: not created, settled, or pending with the probe
\* suspended at an await.  A suspended probe holds its local values: `at`
\* names the await, `listed` is what its readdir returned (filtered), `i` the
\* entry the loop is at, `sub` and `j` the same for the inner loop of
\* findSessionTodos, `acc` what it has collected.
Idle == [state |-> "idle"]
Pending == [state |-> "pending"]
Settled(outcome) == [state |-> "settled", threw |-> outcome.threw, value |-> outcome.value]
PendingAt(at, listed, i, sub, j, acc) ==
    [state |-> "pending", at |-> at, listed |-> listed, i |-> i, sub |-> sub, j |-> j,
     acc |-> acc]
\* A probe that has called readdir on its store.
AtReaddir == PendingAt("readdir", <<>>, 0, <<>>, 0, <<>>)

\* The entries of a directory that carry the name: one, or none.
Named(entries, name) == SelectSeq(entries, LAMBDA e : e.name = name)

\* The todos a parsed document contributes.  A document is
\* [k |-> "malformed"] (JSON.parse throws), [k |-> "list", todos |-> items]
\* (an object with a `todos` array) or [k |-> "single", content, status]
\* (an object without one); "" is a missing or empty field.
TodosOfDoc(readable, doc) ==
    IF ~readable THEN <<>>                               \* readFile throws: caught
    ELSE IF doc.k = "malformed" THEN <<>>                \* JSON.parse throws: caught
    ELSE IF doc.k = "list" THEN doc.todos                \* todos.push(...data.todos)
    ELSE IF doc.content # "" /\ doc.status # ""
         THEN <<[content |-> doc.content, status |-> doc.status]>>
         ELSE <<>>

\* The loop over the matching entries, from entry i on, up to its next
\* await or to the return.
RECURSIVE TodosAdvance(_, _, _)
TodosAdvance(listed, i, acc) ==
    IF i > Len(listed) THEN Settled(Returned(acc))
    ELSE IF listed[i].kind = "file" /\ EndsWith(listed[i].name, DotJson)
         THEN PendingAt("readFile", listed, i, <<>>, 0, acc)
    ELSE IF listed[i].kind = "dir"
         THEN PendingAt("subdir", listed, i, <<>>, 0, acc)
    ELSE TodosAdvance(listed, i + 1, acc)

\* The inner loop over the files of a matching directory, from file j on.
RECURSIVE SubFilesAdvance(_, _, _, _, _)
SubFilesAdvance(listed, i, sub, j, acc) ==
    IF j > Len(sub) THEN TodosAdvance(listed, i + 1, acc)
    ELSE IF EndsWith(sub[j], DotJson)
         THEN PendingAt("subFile", listed, i, sub, j, acc)
    ELSE SubFilesAdvance(listed, i, sub, j + 1, acc)

\* A findSessionTodos whose readdir of a matching directory is not caught.
TodosReaddirUncaught == Settled(Threw)

\* The readdir of a matching directory throws inside the outer try: the
\* catch returns [].
TodosReaddirCaught == Settled(Returned(<<>>))

\* findSessionTodos resumed at the await it is suspended at, against the
\* store as it is now.
TodosStep(store, run, sessionId) ==
    LET entries == IF store.listable THEN store.entries ELSE <<>> IN
    CASE run.at = "readdir" ->
            IF ~store.listable THEN Settled(Returned(<<>>))   \* readdir throws: caught
            ELSE LET matching == SelectSeq(entries, LAMBDA e : StartsWith(e.name, sessionId))
                 IN  TodosAdvance([k \in 1..Len(matching) |->
                                      [name |-> matching[k].name, kind |-> matching[k].kind]],
                                  1, <<>>)
      [] run.at = "readFile" ->
            LET found == SelectSeq(Named(entries, run.listed[run.i].name),
                                   LAMBDA e : e.kind = "file")
                got   == IF found = <<>> THEN <<>>            \* readFile throws: caught
                         ELSE TodosOfDoc(found[1].readable, found[1].doc)
            IN  TodosAdvance(run.listed, run.i + 1, run.acc \o got)
      [] run.at = "subdir" ->
            LET found == SelectSeq(Named(entries, run.listed[run.i].name),
                                   LAMBDA e : e.kind = "dir" /\ e.readable)
            IN  IF found = <<>> THEN TodosReaddirCaught
                ELSE SubFilesAdvance(run.listed, run.i,
                                     [k \in 1..Len(found[1].files) |-> found[1].files[k].name],
                                     1, run.acc)
      [] run.at = "subFile" ->
            LET dirs  == SelectSeq(Named(entries, run.listed[run.i].name),
                                   LAMBDA e : e.kind = "dir")
                found == IF dirs = <<>> THEN <<>> ELSE Named(dirs[1].files, run.sub[run.j])
                got   == IF found = <<>> THEN <<>>            \* readFile throws: caught
                         ELSE TodosOfDoc(found[1].readable, found[1].doc)
            IN  SubFilesAdvance(run.listed, run.i, run.sub, run.j + 1, run.acc \o got)

\* The length of the run of digits a name ends with.
RECURSIVE TrailingDigits(_)
TrailingDigits(name) ==
    IF name = <<>> \/ name[Len(name)] \notin Digits THEN 0
    ELSE 1 + TrailingDigits(SubSeq(name, 1, Len(name) - 1))

DigitValue(d) == CHOOSE n \in 0..9 : ToString(n) = d

\* parseInt(digits, 10), for the digit strings of the model: numbers of one
\* or two digits, which parseInt reads exactly (a number above 2^53 it
\* rounds to the nearest double, which no integer of the model reaches).
RECURSIVE ParseInt(_)
ParseInt(digits) ==
    IF digits = <<>> THEN 0
    ELSE 10 * ParseInt(SubSeq(digits, 1, Len(digits) - 1)) + DigitValue(digits[Len(digits)])

\* The characters U+2028 (line separator) and U+2029 (paragraph separator),
\* written as their JSON escapes.
LineSeparator == "\\u2028"
ParagraphSeparator == "\\u2029"
\* The characters `.` does not match: the four line terminators.
LineTerminators == {"\n", "\r", LineSeparator, ParagraphSeparator}

\* file.match(/^(.+)@v(\d+)$/): a run of digits up to the end, `@v` before
\* it, and before that at least one character, none a line terminator.
BackupMatches(name) ==
    LET d == TrailingDigits(name) IN
    /\ d >= 1
    /\ Len(name) - d >= 3
    /\ name[Len(name) - d] = "v" /\ name[Len(name) - d - 1] = "@"
    /\ \A k \in 1..(Len(name) - d - 2) : name[k] \notin LineTerminators
BackupHash(name) == SubSeq(name, 1, Len(name) - TrailingDigits(name) - 2)
BackupVersion(name) ==
    ParseInt(SubSeq(name, Len(name) - TrailingDigits(name) + 1, Len(name)))

\* The hashes of the matching names, in order of first appearance (the keys
\* of the Map filesByHash).
RECURSIVE HashesOf(_, _)
HashesOf(names, seen) ==
    IF names = <<>> THEN seen
    ELSE LET n == Head(names) IN
         IF BackupMatches(n) /\ \A k \in 1..Len(seen) : seen[k] # BackupHash(n)
         THEN HashesOf(Tail(names), Append(seen, BackupHash(n)))
         ELSE HashesOf(Tail(names), seen)

\* backups.sort((a, b) => a.version - b.version): a stable sort.
RECURSIVE InsertBackup(_, _)
InsertBackup(sorted, b) ==
    IF sorted = <<>> THEN <<b>>
    ELSE IF Head(sorted).version <= b.version
         THEN <<Head(sorted)>> \o InsertBackup(Tail(sorted), b)
         ELSE <<b>> \o sorted
RECURSIVE SortBackups(_)
SortBackups(backups) ==
    IF backups = <<>> THEN <<>>
    ELSE InsertBackup(SortBackups(SubSeq(backups, 1, Len(backups) - 1)),
                      backups[Len(backups)])

ToBackup(name) == [backupFileName |-> name, version |-> BackupVersion(name)]

\* The FileChange of one hash; its path is `(backup ${hash})`.
FileChangeOf(names, hash) ==
    [path    |-> <<"(", "b", "a", "c", "k", "u", "p", " ">> \o hash \o <<")">>,
     action  |-> "modified",
     backups |-> LET own == SelectSeq(names, LAMBDA n :
                                BackupMatches(n) /\ BackupHash(n) = hash)
                 IN  SortBackups([k \in 1..Len(own) |-> ToBackup(own[k])])]

\* `null`, as findSessionFilesChanged returns it.
NoFilesChanged == [present |-> FALSE, totalFiles |-> 0, files |-> <<>>]

\* findSessionFilesChanged; the store is the directory file-history/{sessionId}.
FindSessionFilesChanged(store, sessionId) ==
    IF ~store.listable THEN Returned(NoFilesChanged)        \* readdir throws: caught
    ELSE LET hashes == HashesOf(store.names, <<>>) IN
         IF hashes = <<>> THEN Returned(NoFilesChanged)
         ELSE Returned([present    |-> TRUE,
                        totalFiles |-> Len(hashes),
                        files      |-> [k \in 1..Len(hashes) |->
                                           FileChangeOf(store.names, hashes[k])]])

\* The number of log files read at most, and the characters kept of each.
MaxDebugFiles == 5
SnippetLimit == 5000
\* The characters of the session id a log file's name may start with.
ShortIdLen == 8
\* The length of "=== " and " ===\n" around the file's name.
HeaderLen == 9

\* The snippet pushed for a log file: `=== ${file} ===\n${content.slice(0, 5000)}`.
\* A file's content is given by its size.
SnippetOf(file) ==
    [file   |-> file.name,
     kept   |-> Min(file.size, SnippetLimit),
     length |-> Len(file.name) + HeaderLen + Min(file.size, SnippetLimit)]

\* A probe that reads every matching file.
DebugFilesToReadAll(matching) == matching

\* matching.slice(0, 5)
DebugFilesToRead(matching) == SubSeq(matching, 1, Min(MaxDebugFiles, Len(matching)))

\* The loop over the files to read, from file i on.
DebugAdvance(listed, i, acc) ==
    IF i > Len(listed) THEN Settled(Returned(acc))
    ELSE PendingAt("readFile", listed, i, <<>>, 0, acc)

\* findSessionDebugLogs resumed at the await it is suspended at.
DebugStep(store, run, sessionId) ==
    LET files == IF store.listable THEN store.files ELSE <<>> IN
    CASE run.at = "readdir" ->
            IF ~store.listable THEN Settled(Returned(<<>>))   \* readdir throws: caught
            ELSE LET names    == [k \in 1..Len(files) |-> files[k].name]
                     matching == SelectSeq(names, LAMBDA f :
                                    \/ Includes(f, sessionId)
                                    \/ StartsWith(f, SliceTo(sessionId, ShortIdLen)))
                 IN  DebugAdvance(DebugFilesToRead(matching), 1, <<>>)
      [] run.at = "readFile" ->
            LET found == SelectSeq(Named(files, run.listed[run.i]), LAMBDA f : f.readable)
                got   == IF found = <<>> THEN <<>>            \* readFile throws: caught
                         ELSE <<SnippetOf(found[1])>>
            IN  DebugAdvance(run.listed, run.i + 1, run.acc \o got)

\* `undefined`, as findLinkedPlan and findLinkedSkill return it.
NoPlan == [found |-> FALSE, name |-> <<>>]

\* A probe that reads every file of the directory, plan or not.
PlanFilesOfAny(names) == names

\* files.filter(f => f.endsWith('.md'))
PlanFilesOf(names) == SelectSeq(names, LAMBDA f : EndsWith(f, DotMd))

\* The loop over the plan files, from file i on.
PlanAdvance(listed, i) ==
    IF i > Len(listed) THEN Settled(Returned(NoPlan))
    ELSE PendingAt("readFile", listed, i, <<>>, 0, <<>>)

\* findLinkedPlan resumed at the await it is suspended at.
PlanStep(store, run, sessionId) ==
    LET files == IF store.listable THEN store.files ELSE <<>> IN
    CASE run.at = "readdir" ->
            IF ~store.listable THEN Settled(Returned(NoPlan))  \* readdir throws: caught
            ELSE PlanAdvance(PlanFilesOf([k \in 1..Len(files) |-> files[k].name]), 1)
      [] run.at = "readFile" ->
            LET found == SelectSeq(Named(files, run.listed[run.i]), LAMBDA f : f.readable)
            IN  IF found # <<>> /\ Includes(found[1].content, sessionId)
                THEN Settled(Returned([found |-> TRUE, name |-> run.listed[run.i]]))
                ELSE PlanAdvance(run.listed, run.i + 1)              \* or caught

\* findLinkedSkill
FindLinkedSkill(sessionId) == Returned(NoPlan)

---------------------------------------------------------------------------
(* Session correlator: correlateSessionData *)

\* The session the correlator is asked about.
SessionId == <<"3", "1", "f", "3", "f", "2", "2", "4", "-", "f">>
\* sessionId.slice(0, 8)
ShortId == SliceTo(SessionId, ShortIdLen)

ProbeNames == {"todos", "filesChanged", "debugLogs", "linkedPlan", "linkedSkill"}

\* The probes that read a store.
StoreProbes == ProbeNames \ {"linkedSkill"}

\* Probe p resumed at the await it is suspended at, against the stores as
\* they are now: suspended at its next await, or settled.
ProbeStep(p) ==
    CASE p = "todos"        -> TodosStep(todosStore, probes[p], SessionId)
      [] p = "filesChanged" -> Settled(FindSessionFilesChanged(historyStore, SessionId))
      [] p = "debugLogs"    -> DebugStep(debugStore, probes[p], SessionId)
      [] p = "linkedPlan"   -> PlanStep(plansStore, probes[p], SessionId)

\* Todo documents and store entries the stores below are made of.
MalformedDoc == [k |-> "malformed", todos |-> <<>>, content |-> "", status |-> ""]
SingleDoc == [k |-> "single", todos |-> <<>>, content |-> "x", status |-> "pending"]
ListDoc ==
    [k |-> "list", content |-> "", status |-> "",
     todos |-> <<[content |-> "a", status |-> "in_progress"],
                 [content |-> "b", status |-> "completed"]>>]
\* An object whose status is none of the three, and a `todos` array holding
\* an element without content and status and one with such a status.
OddDoc == [k |-> "single", todos |-> <<>>, content |-> "x", status |-> "done"]
OddListDoc ==
    [k |-> "list", content |-> "", status |-> "",
     todos |-> <<[content |-> "", status |-> ""],
                 [content |-> "c", status |-> "done"],
                 [content |-> "d", status |-> "pending"]>>]
TodoFile(name, readable, doc) ==
    [name |-> name, kind |-> "file", readable |-> readable, doc |-> doc, files |-> <<>>]
TodoDir(name, readable, files) ==
    [name |-> name, kind |-> "dir", readable |-> readable, doc |-> MalformedDoc,
     files |-> files]
SubFile(name, readable, doc) == [name |-> name, readable |-> readable, doc |-> doc]

Unlistable == [listable |-> FALSE]

\* The states of the todos store the correlator is run against: missing,
\* empty, and holding matching files and directories, readable or not,
\* well-formed or not.
TodoStores ==
    {Unlistable,
     [listable |-> TRUE, entries |-> <<>>],
     [listable |-> TRUE, entries |-> <<TodoFile(SessionId \o DotJson, TRUE, SingleDoc)>>],
     [listable |-> TRUE, entries |->
        <<TodoFile(SessionId \o DotJson, TRUE, ListDoc),
          TodoDir(SessionId \o <<"-", "d">>, TRUE,
                  <<SubFile(<<"t">> \o DotJson, TRUE, SingleDoc)>>)>>],
     [listable |-> TRUE, entries |->
        <<TodoFile(SessionId \o DotJson, TRUE, SingleDoc),
          TodoDir(SessionId \o <<"-", "d">>, FALSE, <<>>)>>],
     [listable |-> TRUE, entries |->
        <<TodoFile(SessionId \o DotJson, FALSE, SingleDoc),
          TodoFile(<<"z">> \o DotJson, TRUE, ListDoc)>>],
     [listable |-> TRUE, entries |->
        <<TodoFile(SessionId \o DotJson, TRUE, SingleDoc),
          TodoDir(SessionId \o <<"-", "d">>, TRUE,
                  <<SubFile(<<"t">> \o DotJson, TRUE, ListDoc),
                    SubFile(<<"u">> \o DotJson, TRUE, MalformedDoc),
                    SubFile(<<"v">> \o DotJson, TRUE, ListDoc)>>)>>],
     [listable |-> TRUE, entries |->
        <<TodoFile(SessionId \o DotJson, TRUE, OddDoc),
          TodoFile(SessionId \o <<"-", "l">> \o DotJson, TRUE, OddListDoc)>>]}

HistoryStores ==
    {Unlistable,
     [listable |-> TRUE, names |-> <<>>],
     [listable |-> TRUE, names |-> <<<<"x">>>>],
     [listable |-> TRUE, names |->
        <<<<"a", "@", "v", "2">>, <<"b", "@", "v", "1">>, <<"a", "@", "v", "1">>>>],
     [listable |-> TRUE, names |->
        <<<<"a", "@", "v", "1", "0">>, <<"x">>, <<"a", "@", "v", "2">>,
          <<"@", "v", "1">>, <<"a", "@", "v">>, <<"a", "@", "v", "1", "@", "v", "3">>>>],
     [listable |-> TRUE, names |->
        <<<<"a", "\n", "b", "@", "v", "1">>, <<"b", "@", "v", "1">>,
          <<"a", "\r", "@", "v", "2">>>>],
     [listable |-> TRUE, names |-> <<<<"a", LineSeparator, "b", "@", "v", "1">>>>],
     [listable |-> TRUE, names |->
        <<<<"c", ParagraphSeparator, "@", "v", "7">>, <<"c", "@", "v", "2">>,
          <<LineSeparator, "@", "v", "1">>>>]}

LogFile(name, readable, size) == [name |-> name, readable |-> readable, size |-> size]
DebugStores ==
    {Unlistable,
     [listable |-> TRUE, files |-> <<>>],
     [listable |-> TRUE, files |-> <<LogFile(SessionId \o <<".", "t">>, TRUE, 3)>>],
     [listable |-> TRUE, files |->
        <<LogFile(SessionId \o <<".", "t">>, FALSE, 3),
          LogFile(<<"x", "-">> \o SessionId, TRUE, 6000),
          LogFile(<<"z">>, TRUE, 1)>>],
     [listable |-> TRUE, files |->
        <<LogFile(<<"x">> \o ShortId, TRUE, 2),
          LogFile(ShortId \o <<".", "t">>, TRUE, 3)>>],
     [listable |-> TRUE, files |->
        <<LogFile(ShortId \o <<".", "t">>, TRUE, 3),
          LogFile(<<"z">>, TRUE, 1),
          LogFile(<<"x", "-">> \o SessionId, TRUE, 4),
          LogFile(SessionId \o <<".", "t">>, FALSE, 3),
          LogFile(ShortId \o <<"-", "2">>, TRUE, 5000),
          LogFile(<<"x">> \o ShortId, TRUE, 2),
          LogFile(SessionId \o <<".", "u">>, TRUE, 1),
          LogFile(ShortId \o <<"-", "3">>, TRUE, 2)>>],
     [listable |-> TRUE, files |->
        <<LogFile(ShortId \o <<"-", "1">>, TRUE, 1),
          LogFile(ShortId \o <<"-", "2">>, TRUE, 1),
          LogFile(ShortId \o <<"-", "3">>, TRUE, 1),
          LogFile(ShortId \o <<"-", "4">>, TRUE, 1),
          LogFile(ShortId \o <<"-", "5">>, TRUE, 1),
          LogFile(ShortId \o <<"-", "6">>, TRUE, 1)>>]}

PlanFile(name, readable, content) ==
    [name |-> name, readable |-> readable, content |-> content]
PlanStores ==
    {Unlistable,
     [listable |-> TRUE, files |-> <<>>],
     [listable |-> TRUE, files |->
        <<PlanFile(<<"p">> \o DotMd, TRUE, <<"i", "d", " ">> \o SessionId)>>],
     [listable |-> TRUE, files |->
        <<PlanFile(<<"x", ".", "t">>, TRUE, SessionId),
          PlanFile(<<"p">> \o DotMd, FALSE, SessionId),
          PlanFile(<<"q">> \o DotMd, TRUE, <<"n", "o">>),
          PlanFile(<<"r">> \o DotMd, TRUE, SessionId \o <<"!">>),
          PlanFile(<<"s">> \o DotMd, TRUE, SessionId)>>]}

NotCalled == [state |-> "idle"]

\* The correlator before a call, against no store at all.
CorrIdle ==
    /\ todosStore = Unlistable /\ historyStore = Unlistable
    /\ debugStore = Unlistable /\ plansStore = Unlistable
    /\ probes = [p \in ProbeNames |-> Idle]
    /\ storeWrites = 0
    /\ order = <<>>
    /\ corr = NotCalled

\* No call made yet.
NotYetCalled ==
    /\ probes = [p \in ProbeNames |-> Idle]
    /\ storeWrites = 0
    /\ order = <<>>
    /\ corr = NotCalled

\* The stores a whole call is run against: each missing or holding data,
\* the todos store also with a directory that cannot be listed.
CorrStart ==
    /\ todosStore \in
          {Unlistable,
           [listable |-> TRUE, entries |->
              <<TodoFile(SessionId \o DotJson, TRUE, ListDoc),
                TodoDir(SessionId \o <<"-", "d">>, TRUE,
                        <<SubFile(<<"t">> \o DotJson, TRUE, SingleDoc)>>)>>],
           [listable |-> TRUE, entries |->
              <<TodoFile(SessionId \o DotJson, TRUE, SingleDoc),
                TodoDir(SessionId \o <<"-", "d">>, FALSE, <<>>)>>]}
    /\ historyStore \in
          {Unlistable,
           [listable |-> TRUE, names |->
              <<<<"a", "@", "v", "2">>, <<"b", "@", "v", "1">>, <<"a", "@", "v", "1">>>>]}
    /\ debugStore \in
          {Unlistable,
           [listable |-> TRUE, files |-> <<LogFile(SessionId \o <<".", "t">>, TRUE, 3)>>]}
    /\ plansStore \in
          {Unlistable,
           [listable |-> TRUE, files |->
              <<PlanFile(<<"p">> \o DotMd, TRUE, <<"i", "d", " ">> \o SessionId)>>]}
    /\ NotYetCalled

\* One store holding data, the others missing.
TodosStart ==
    /\ todosStore \in TodoStores /\ historyStore = Unlistable
    /\ debugStore = Unlistable /\ plansStore = Unlistable
    /\ NotYetCalled
HistoryStart ==
    /\ historyStore \in HistoryStores /\ todosStore = Unlistable
    /\ debugStore = Unlistable /\ plansStore = Unlistable
    /\ NotYetCalled
DebugStart ==
    /\ debugStore \in DebugStores /\ todosStore = Unlistable
    /\ historyStore = Unlistable /\ plansStore = Unlistable
    /\ NotYetCalled
PlansStart ==
    /\ plansStore \in PlanStores /\ todosStore = Unlistable
    /\ historyStore = Unlistable /\ debugStore = Unlistable
    /\ NotYetCalled

\* correlateSessionData is called: the five probes are called in turn.  Each
\* of the four that read a store runs up to its readdir; findLinkedSkill has
\* no await and its promise is fulfilled at once.
CorrelateSessionData ==
    /\ corr = NotCalled
    /\ probes' = [p \in ProbeNames |->
                     IF p = "linkedSkill" THEN Settled(FindLinkedSkill(SessionId))
                     ELSE AtReaddir]
    /\ order' = <<"linkedSkill">>
    /\ corr' = Pending
    /\ UNCHANGED <<todosStore, historyStore, debugStore, plansStore, storeWrites>>
    /\ UNCHANGED <<readerVars, projectVars, codecVars, settingsVars, promptVars, sessionVars, filesVars>>

\* The readdir or readFile a probe awaits settles: the probe runs on to its
\* next await, or returns and its promise settles.
ProbeResumes ==
    \E p \in StoreProbes :
        /\ probes[p].state = "pending"
        /\ probes' = [probes EXCEPT ![p] = ProbeStep(p)]
        /\ order' = IF ProbeStep(p).state = "settled" THEN Append(order, p) ELSE order
        /\ UNCHANGED <<todosStore, historyStore, debugStore, plansStore, storeWrites, corr>>
        /\ UNCHANGED <<readerVars, projectVars, codecVars, settingsVars, promptVars, sessionVars, filesVars>>

\* Promise.all settles: rejected as soon as one probe has thrown, fulfilled
\* once all five have returned; the record is assembled from their values.
CorrelateSettles ==
    /\ corr = Pending
    /\ \/ \E p \in ProbeNames : probes[p].state = "settled" /\ probes[p].threw
       \/ \A p \in ProbeNames : probes[p].state = "settled"
    /\ corr' = IF \E p \in ProbeNames : probes[p].state = "settled" /\ probes[p].threw
               THEN [state |-> "rejected"]
               ELSE [state        |-> "fulfilled",
                     todos        |-> probes["todos"].value,
                     filesChanged |-> probes["filesChanged"].value,
                     debugLogs    |-> probes["debugLogs"].value,
                     linkedPlan   |-> probes["linkedPlan"].value,
                     linkedSkill  |-> probes["linkedSkill"].value]
    /\ UNCHANGED <<todosStore, historyStore, debugStore, plansStore, probes, storeWrites,
                   order>>
    /\ UNCHANGED <<readerVars, projectVars, codecVars, settingsVars, promptVars, sessionVars, filesVars>>

\* While the call is pending another process replaces a store: removes it,
\* or rewrites, adds and removes files of it.
CallPending == corr = Pending /\ storeWrites < MaxWrites

TodosStoreChanges ==
    /\ CallPending
    /\ todosStore' \in TodoStores \ {todosStore}
    /\ storeWrites' = storeWrites + 1
    /\ UNCHANGED <<historyStore, debugStore, plansStore, probes, order, corr>>
    /\ UNCHANGED <<readerVars, projectVars, codecVars, settingsVars, promptVars, sessionVars, filesVars>>

HistoryStoreChanges ==
    /\ CallPending
    /\ historyStore' \in HistoryStores \ {historyStore}
    /\ storeWrites' = storeWrites + 1
    /\ UNCHANGED <<todosStore, debugStore, plansStore, probes, order, corr>>
    /\ UNCHANGED <<readerVars, projectVars, codecVars, settingsVars, promptVars, sessionVars, filesVars>>

DebugStoreChanges ==
    /\ CallPending
    /\ debugStore' \in DebugStores \ {debugStore}
    /\ storeWrites' = storeWrites + 1
    /\ UNCHANGED <<todosStore, historyStore, plansStore, probes, order, corr>>
    /\ UNCHANGED <<readerVars, projectVars, codecVars, settingsVars, promptVars, sessionVars, filesVars>>

PlansStoreChanges ==
    /\ CallPending
    /\ plansStore' \in PlanStores \ {plansStore}
    /\ storeWrites' = storeWrites + 1
    /\ UNCHANGED <<todosStore, historyStore, debugStore, probes, order, corr>>
    /\ UNCHANGED <<readerVars, projectVars, codecVars, settingsVars, promptVars, sessionVars, filesVars>>

---------------------------------------------------------------------------
(* Path codec *)

\* str.replace(/x/g, y): every character `from` becomes `to`.
ReplaceAll(s, from, to) == [k \in 1..Len(s) |-> IF s[k] = from THEN to ELSE s[k]]

\* encodeProjectPath: every "/" becomes "-"; nothing else is touched.
EncodeProjectPath(p) == ReplaceAll(p, "/", "-")

\* A decode that takes every name for the name of an absolute path.
DecodeAlwaysAbsolute(encoded) ==
    <<"/">> \o ReplaceAll(SubSeq(encoded, 2, Len(encoded)), "-", "/")

\* decodeProjectPath: a leading "-" is the root; every other "-" becomes "/".
DecodeProjectPath(encoded) ==
    IF StartsWith(encoded, <<"-">>)
    THEN <<"/">> \o ReplaceAll(SubSeq(encoded, 2, Len(encoded)), "-", "/")
    ELSE ReplaceAll(encoded, "-", "/")

\* os.homedir() of the account the server runs under.
Home == <<"/", "a">>

\* getDisplayPath: the home directory prefix becomes "~".
GetDisplayPath(p) ==
    IF StartsWith(p, Home) THEN <<"~">> \o SubSeq(p, Len(Home) + 1, Len(p)) ELSE p

\* The last element of path.split('/'): what follows the last "/".
RECURSIVE LastSegment(_)
LastSegment(p) ==
    IF p = <<>> \/ p[Len(p)] = "/" THEN <<>>
    ELSE Append(LastSegment(SubSeq(p, 1, Len(p) - 1)), p[Len(p)])

\* getProjectName: the last segment, or the whole path when that is empty.
GetProjectName(p) == IF LastSegment(p) # <<>> THEN LastSegment(p) ELSE p

\* new Map(): no keys.
EmptyMap == <<>>

\* A Map.set that keeps the value a key already has.
MapSetIfAbsent(m, k, v) ==
    [x \in DOMAIN m \cup {k} |-> IF x \in DOMAIN m THEN m[x] ELSE v]

\* Map.set(k, v): the key's value is replaced when the key is there.
MapSet(m, k, v) == [x \in DOMAIN m \cup {k} |-> IF x = k THEN v ELSE m[x]]

\* for (const realPath of Object.keys(projects)) lookup.set(encode, realPath)
RECURSIVE LookupLoop(_, _)
LookupLoop(keys, lookupMap) ==
    IF keys = <<>> THEN lookupMap
    ELSE LookupLoop(Tail(keys),
                    MapSet(lookupMap, EncodeProjectPath(Head(keys)), Head(keys)))

\* Object.keys(config.projects), in the order of the document.  (No key of
\* the model is an integer index, which Object.keys would move to the front.)
ProjectKeys(doc) == [k \in 1..Len(doc.projects) |-> doc.projects[k].path]

\* buildPathLookup: a config document is [isNull, hasProjects, projects],
\* projects being the entries of its `projects` object as [path, meta] in
\* key order.
BuildPathLookup(doc) ==
    IF doc.hasProjects THEN LookupLoop(ProjectKeys(doc), EmptyMap) ELSE EmptyMap

---------------------------------------------------------------------------
(* Project listing: GET /projects *)

\* projectConfig?.field of a config entry that is not there.
NoProjectConfig ==
    [lastSessionId |-> "none", lastCost |-> Undefined, lastDuration |-> Undefined,
     lastTotalInputTokens |-> Undefined, lastTotalOutputTokens |-> Undefined]

\* configProjects?.[decodedPath]: the entry under that very key, if any.
ProjectConfigOf(doc, p) ==
    IF doc.hasProjects /\ \E k \in 1..Len(doc.projects) : doc.projects[k].path = p
    THEN LET k == CHOOSE j \in 1..Len(doc.projects) : doc.projects[j].path = p
         IN  doc.projects[k].meta
    ELSE NoProjectConfig

DotJsonl == <<".", "j", "s", "o", "n", "l">>

\* Array.prototype.sort with (a, b) => b.mtime - a.mtime, which is stable:
\* an element goes before the first one it is newer than.
RECURSIVE InsertSessionFile(_, _)
InsertSessionFile(sorted, f) ==
    IF sorted = <<>> THEN <<f>>
    ELSE IF Head(sorted).mtime - f.mtime < 0 THEN <<f>> \o sorted
    ELSE <<Head(sorted)>> \o InsertSessionFile(Tail(sorted), f)

RECURSIVE SortSessionFiles(_)
SortSessionFiles(files) ==
    IF files = <<>> THEN <<>>
    ELSE InsertSessionFile(SortSessionFiles(SubSeq(files, 1, Len(files) - 1)),
                           files[Len(files)])

RECURSIVE JsonlFiles(_)
JsonlFiles(files) ==
    IF files = <<>> THEN <<>>
    ELSE (IF EndsWith(Head(files).name, DotJsonl) THEN <<Head(files)>> ELSE <<>>)
         \o JsonlFiles(Tail(files))

\* getSessionFiles: the .jsonl files of a project directory, newest first;
\* [] when the directory cannot be listed or one stat fails.
GetSessionFiles(dir) ==
    IF ~dir.listable THEN <<>>
    ELSE LET jsonlFiles == JsonlFiles(dir.files) IN
         IF \E i \in 1..Len(jsonlFiles) : ~jsonlFiles[i].statOk THEN <<>>
         ELSE SortSessionFiles([i \in 1..Len(jsonlFiles) |->
                                   [name |-> jsonlFiles[i].name,
                                    mtime |-> jsonlFiles[i].mtime]])

\* A resolution that never consults the lookup.
ResolvePathDecodeOnly(lookupMap, name) == DecodeProjectPath(name)

\* pathLookup.get(dir.name) ?? decodeProjectPath(dir.name)
ResolvePath(lookupMap, name) ==
    IF name \in DOMAIN lookupMap THEN lookupMap[name] ELSE DecodeProjectPath(name)

\* The entry the listing builds for one project directory, from the session
\* files getSessionFiles returned for it.
ProjectEntry(name, sessionFiles, doc, lookupMap) ==
    LET decodedPath   == ResolvePath(lookupMap, name)
        projectConfig == ProjectConfigOf(doc, decodedPath)
    IN  [path                  |-> decodedPath,
         encodedPath           |-> name,
         displayPath           |-> GetDisplayPath(decodedPath),
         name                  |-> GetProjectName(decodedPath),
         sessionCount          |-> Len(sessionFiles),
         lastSessionId         |-> projectConfig.lastSessionId,
         lastActivity          |-> IF Len(sessionFiles) > 0
                                   THEN ToISOString(sessionFiles[1].mtime)
                                   ELSE Undefined,
         lastCost              |-> projectConfig.lastCost,
         lastDuration          |-> projectConfig.lastDuration,
         lastTotalInputTokens  |-> projectConfig.lastTotalInputTokens,
         lastTotalOutputTokens |-> projectConfig.lastTotalOutputTokens]

\* entries.filter(e => e.isDirectory())
RECURSIVE Directories(_)
Directories(entries) ==
    IF entries = <<>> THEN <<>>
    ELSE (IF Head(entries).isDirectory THEN <<Head(entries)>> ELSE <<>>)
         \o Directories(Tail(entries))

\* The UTF-16 code unit of a character of the model.
CharCode(c) ==
    CASE c = "-" -> 45 [] c = "." -> 46 [] c = "/" -> 47 [] c = "1" -> 49
      [] c = "a" -> 97 [] c = "b" -> 98 [] c = "~" -> 126

\* a < b on strings: by code units, a proper prefix first.
RECURSIVE StrLess(_, _)
StrLess(a, b) ==
    IF b = <<>> THEN FALSE
    ELSE IF a = <<>> THEN TRUE
    ELSE IF Head(a) # Head(b) THEN CharCode(Head(a)) < CharCode(Head(b))
    ELSE StrLess(Tail(a), Tail(b))

SortKeys == {"lastActivity", "name", "sessionCount"}

\* The comparator of projects.sort, for a sortBy among SortKeys;
\* `lastActivity || ''` puts a missing activity below every instant.
CompareProjects(a, b, sortBy, sortOrder) ==
    LET cmp == IF sortBy = "name"
               THEN (IF StrLess(a.name, b.name) THEN -1
                     ELSE IF StrLess(b.name, a.name) THEN 1 ELSE 0)
               ELSE IF sortBy = "sessionCount"
               THEN (IF a.sessionCount < b.sessionCount THEN -1
                     ELSE IF a.sessionCount > b.sessionCount THEN 1 ELSE 0)
               ELSE (IF a.lastActivity < b.lastActivity THEN -1
                     ELSE IF a.lastActivity > b.lastActivity THEN 1 ELSE 0)
    IN  IF sortOrder = "desc" THEN -cmp ELSE cmp

\* Array.prototype.sort is stable: an element goes before the first one
\* the comparator puts it before.
RECURSIVE InsertProject(_, _, _, _)
InsertProject(sorted, x, sortBy, sortOrder) ==
    IF sorted = <<>> THEN <<x>>
    ELSE IF CompareProjects(x, Head(sorted), sortBy, sortOrder) < 0 THEN <<x>> \o sorted
    ELSE <<Head(sorted)>> \o InsertProject(Tail(sorted), x, sortBy, sortOrder)

RECURSIVE SortProjects(_, _, _)
SortProjects(list, sortBy, sortOrder) ==
    IF list = <<>> THEN <<>>
    ELSE InsertProject(SortProjects(SubSeq(list, 1, Len(list) - 1), sortBy, sortOrder),
                       list[Len(list)], sortBy, sortOrder)

DefaultLimit == 50
MaxLimit == 100

\* Array.prototype.slice(start, end): a negative index counts from the end.
Slice(list, start, end) ==
    LET len  == Len(list)
        from == IF start < 0 THEN (IF len + start < 0 THEN 0 ELSE len + start)
                ELSE Min(start, len)
        to   == IF end < 0 THEN (IF len + end < 0 THEN 0 ELSE len + end)
                ELSE Min(end, len)
    IN  SubSeq(list, from + 1, to)

\* The request's query: the defaults stand in for what is absent.  A limit
\* or offset is the integer parseInt reads; Undefined, which is 0, is also a
\* parameter that is absent or not a number (NaN): `||` takes its right
\* operand for NaN and for 0 alike, so `limit=0` and no limit are one query.
QueryLimit(q) == Min(IF q.limit = Undefined THEN DefaultLimit ELSE q.limit, MaxLimit)
QueryOffset(q) == q.offset

NotListed == [status |-> 0]
ListingError == [status |-> 500, code |-> "INTERNAL_ERROR"]

\* The response of GET /projects, from the directories the handler listed
\* and the session files getSessionFiles returned for each.
ListProjectsResponse(dirs, files, doc, lookupMap, q) ==
    LET projects    == SortProjects([i \in 1..Len(dirs) |->
                                        ProjectEntry(dirs[i], files[i], doc, lookupMap)],
                                    q.sortBy, q.sortOrder)
        limit       == QueryLimit(q)
        offset      == QueryOffset(q)
    IN  [status  |-> 200,
         data    |-> Slice(projects, offset, offset + limit),
         total   |-> Len(projects),
         limit   |-> limit,
         offset  |-> offset,
         hasMore |-> offset + limit < Len(projects)]

\* Paths and names are drawn over these characters.
KeyChars == {"/", "-", "a"}
NameChars == {"-", "a"}

\* The real paths a config document can be keyed by: absolute.
RealPaths ==
    {<<"/">> \o s : s \in UNION {[1..n -> KeyChars] : n \in 0..(MaxNameLen - 1)}}

\* The names a directory of the projects store can have.
DirNames == UNION {[1..n -> NameChars] : n \in 1..MaxNameLen}

\* The metadata the k-th config entry carries.
MetaAt(k) ==
    [lastSessionId |-> "last", lastCost |-> k, lastDuration |-> k,
     lastTotalInputTokens |-> k, lastTotalOutputTokens |-> k]

\* The config files: unreadable, holding null, without a `projects` object,
\* and with one of up to MaxKeys distinct keys.
ConfigFiles ==
    {NullConfigFile,
     [readable |-> FALSE, isNull |-> FALSE, hasProjects |-> FALSE, projects |-> <<>>],
     [readable |-> TRUE, isNull |-> FALSE, hasProjects |-> FALSE, projects |-> <<>>]}
    \cup {[readable |-> TRUE, isNull |-> FALSE, hasProjects |-> TRUE,
           projects |-> [k \in 1..Len(ks) |-> [path |-> ks[k], meta |-> MetaAt(k)]]] :
          ks \in {s \in UNION {[1..n -> RealPaths] : n \in 0..MaxKeys} :
                     \A i, j \in 1..Len(s) : i # j => s[i] # s[j]}}

SessionFile(name, mtime, statOk) == [name |-> name, mtime |-> mtime, statOk |-> statOk]

\* What a directory entry of the projects store can hold.
DirContents ==
    {[isDirectory |-> FALSE, listable |-> FALSE, files |-> <<>>],
     [isDirectory |-> TRUE, listable |-> FALSE, files |-> <<>>],
     [isDirectory |-> TRUE, listable |-> TRUE, files |-> <<>>],
     [isDirectory |-> TRUE, listable |-> TRUE, files |->
        <<SessionFile(<<"s", "1">> \o DotJsonl, 1, TRUE),
          SessionFile(<<"s", "2">> \o DotJsonl, 2, TRUE),
          SessionFile(<<"n", "o", "t", "e">>, 3, FALSE)>>],
     [isDirectory |-> TRUE, listable |-> TRUE, files |->
        <<SessionFile(<<"s", "1">> \o DotJsonl, 1, TRUE),
          SessionFile(<<"s", "2">> \o DotJsonl, 2, FALSE)>>]}

StoreEntry(name, c) ==
    [name |-> name, isDirectory |-> c.isDirectory, listable |-> c.listable,
     files |-> c.files]

\* The projects stores: missing, and holding one entry.
ProjectStores ==
    {[listable |-> FALSE, entries |-> <<>>]}
    \cup {[listable |-> TRUE, entries |-> <<StoreEntry(n, c)>>] :
          n \in DirNames, c \in DirContents}

\* The pages asked for: the default one, and the second of pages of one.
Pages == {[limit |-> Undefined, offset |-> Undefined], [limit |-> 1, offset |-> 1]}

Queries ==
    {[sortBy |-> s, sortOrder |-> o, limit |-> p.limit, offset |-> p.offset] :
     s \in SortKeys, o \in {"asc", "desc"}, p \in Pages}

\* No request served yet.
NoQuery == [sortBy |-> "none", sortOrder |-> "none", limit |-> Undefined, offset |-> Undefined]

\* The handler of GET /projects between two requests.
NotScanning == [pc |-> "idle", dirs |-> <<>>, doc |-> EmptyDoc, files |-> <<>>]

ProjectsQuiet ==
    /\ projectsStore = [listable |-> FALSE, entries |-> <<>>]
    /\ pathLookup = EmptyMap
    /\ query = NoQuery
    /\ listing = NotListed
    /\ scan = NotScanning
    /\ treeWrites = 0

ProjectsStart ==
    /\ configFile \in ConfigFiles
    /\ projectsStore \in ProjectStores
    /\ pathLookup = EmptyMap
    /\ query = NoQuery
    /\ listing = NotListed
    /\ scan = NotScanning
    /\ treeWrites = 0
ProjectsIdle == configFile = NoConfigFile /\ ProjectsQuiet

\* GET /projects with the query q arrives: the handler runs up to the
\* readdir of the store.
ListProjectsFor(q) ==
    /\ scan.pc = "idle" /\ listing = NotListed
    /\ query' = q
    /\ scan' = [scan EXCEPT !.pc = "readdir"]
    /\ UNCHANGED <<configFile, projectsStore, pathLookup, listing, treeWrites>>
    /\ UNCHANGED <<readerVars, corrVars, codecVars, settingsVars, promptVars, sessionVars, filesVars>>

\* GET /projects, for a store of one directory.
ListProjects == \E q \in Queries : ListProjectsFor(q)

\* GET /projects without a query.
ListAllProjects ==
    ListProjectsFor([sortBy |-> "lastActivity", sortOrder |-> "desc",
                     limit |-> Undefined, offset |-> Undefined])

\* The readdir of the store settles: a failure is the 500; otherwise the
\* directories among the entries are kept and getClaudeConfig is awaited.
ProjectsListed ==
    /\ scan.pc = "readdir"
    /\ IF ~projectsStore.listable
       THEN /\ listing' = ListingError
            /\ scan' = [scan EXCEPT !.pc = "done"]
       ELSE /\ listing' = listing
            /\ scan' = [scan EXCEPT
                           !.pc = "config",
                           !.dirs = LET ds == Directories(projectsStore.entries)
                                    IN  [k \in 1..Len(ds) |-> ds[k].name]]
    /\ UNCHANGED <<configFile, projectsStore, pathLookup, query, treeWrites>>
    /\ UNCHANGED <<readerVars, corrVars, codecVars, settingsVars, promptVars, sessionVars, filesVars>>

\* getSessionFiles of one directory, suspended at its readdir, suspended at
\* the Promise.all of its stats (0 is a stat still pending), and returned.
DirAtReaddir == [at |-> "readdir", names |-> <<>>, mtimes |-> <<>>, result |-> <<>>]
DirAtStats(names) ==
    [at |-> "stat", names |-> names, mtimes |-> [k \in 1..Len(names) |-> Undefined],
     result |-> <<>>]
DirDone(result) == [at |-> "done", names |-> <<>>, mtimes |-> <<>>, result |-> result]

\* The config is read and the lookup built; getSessionFiles is called for
\* every directory and each call awaits its readdir.  On a document that
\* is null buildPathLookup throws and the catch answers 500.
ProjectsConfigRead ==
    /\ scan.pc = "config"
    /\ LET doc == GetClaudeConfig(configFile) IN
       IF BuildPathLookupThrows(doc)
       THEN /\ listing' = ListingError
            /\ pathLookup' = pathLookup
            /\ scan' = [scan EXCEPT !.pc = "done"]
       ELSE /\ listing' = listing
            /\ pathLookup' = BuildPathLookup(doc)
            /\ scan' = [scan EXCEPT !.pc = "dirs", !.doc = doc,
                                     !.files = [k \in 1..Len(scan.dirs) |-> DirAtReaddir]]
    /\ UNCHANGED <<configFile, projectsStore, query, treeWrites>>
    /\ UNCHANGED <<readerVars, corrVars, codecVars, settingsVars, promptVars, sessionVars, filesVars>>

\* The directory of the store that carries the name, as it is now: one, or
\* none.
DirectoryNamed(store, name) ==
    IF ~store.listable THEN <<>>
    ELSE SelectSeq(store.entries, LAMBDA e : e.name = name /\ e.isDirectory /\ e.listable)

\* The readdir of getSessionFiles settles for one directory: a failure is
\* caught and gives []; otherwise every .jsonl name is stat'ed.
DirectoryListed ==
    \E k \in 1..Len(scan.files) :
        /\ scan.pc = "dirs" /\ scan.files[k].at = "readdir"
        /\ LET found == DirectoryNamed(projectsStore, scan.dirs[k])
               names == IF found = <<>> THEN <<>>
                        ELSE LET fs == JsonlFiles(found[1].files)
                             IN  [j \in 1..Len(fs) |-> fs[j].name]
           IN  scan' = [scan EXCEPT !.files[k] =
                           IF names = <<>> THEN DirDone(<<>>) ELSE DirAtStats(names)]
        /\ UNCHANGED <<configFile, projectsStore, pathLookup, query, listing, treeWrites>>
        /\ UNCHANGED <<readerVars, corrVars, codecVars, settingsVars, promptVars, sessionVars, filesVars>>

\* One stat of getSessionFiles settles.  A stat that fails rejects the
\* Promise.all: the catch returns [].  With the last stat the files are
\* sorted and returned.
FileStatted ==
    \E k \in 1..Len(scan.files) :
        /\ scan.pc = "dirs" /\ scan.files[k].at = "stat"
        /\ \E j \in 1..Len(scan.files[k].names) :
              /\ scan.files[k].mtimes[j] = Undefined
              /\ LET dir    == DirectoryNamed(projectsStore, scan.dirs[k])
                     found  == IF dir = <<>> THEN <<>>
                               ELSE SelectSeq(Named(dir[1].files, scan.files[k].names[j]),
                                              LAMBDA f : f.statOk)
                     mtimes == [scan.files[k].mtimes EXCEPT ![j] = found[1].mtime]
                 IN  scan' = [scan EXCEPT !.files[k] =
                        IF found = <<>> THEN DirDone(<<>>)
                        ELSE IF \E x \in 1..Len(mtimes) : mtimes[x] = Undefined
                        THEN [scan.files[k] EXCEPT !.mtimes = mtimes]
                        ELSE DirDone(SortSessionFiles(
                                [x \in 1..Len(mtimes) |->
                                    [name |-> scan.files[k].names[x], mtime |-> mtimes[x]]]))]
        /\ UNCHANGED <<configFile, projectsStore, pathLookup, query, listing, treeWrites>>
        /\ UNCHANGED <<readerVars, corrVars, codecVars, settingsVars, promptVars, sessionVars, filesVars>>

\* Every getSessionFiles has returned: the entries are built, sorted and
\* paged, and the response is sent.
ProjectsRespond ==
    /\ scan.pc = "dirs"
    /\ \A k \in 1..Len(scan.files) : scan.files[k].at = "done"
    /\ listing' = ListProjectsResponse(scan.dirs,
                                       [k \in 1..Len(scan.files) |-> scan.files[k].result],
                                       scan.doc, pathLookup, query)
    /\ scan' = [scan EXCEPT !.pc = "done"]
    /\ UNCHANGED <<configFile, projectsStore, pathLookup, query, treeWrites>>
    /\ UNCHANGED <<readerVars, corrVars, codecVars, settingsVars, promptVars, sessionVars, filesVars>>

\* A request is being served and other processes may still write.
Scanning == scan.pc \notin {"idle", "done"} /\ treeWrites < MaxWrites

\* A directory of the store without its j-th file, and with one more file.
WithoutFile(e, j) ==
    [e EXCEPT !.files = SubSeq(e.files, 1, j - 1) \o SubSeq(e.files, j + 1, Len(e.files))]
WithNewFile(e) ==
    [e EXCEPT !.files = Append(e.files, SessionFile(<<"s", "3">> \o DotJsonl, 3, TRUE))]

\* The directory of a project the session tool is first run in.
NewProject ==
    StoreEntry(<<"-", "b">>,
               [isDirectory |-> TRUE, listable |-> TRUE,
                files |-> <<SessionFile(<<"s", "1">> \o DotJsonl, 1, TRUE)>>])

\* While the request is served the store is removed, or the session tool
\* adds a project directory, or a file of a project directory is removed,
\* or a session is started in it.
ProjectsStoreChanges ==
    /\ Scanning
    /\ projectsStore.listable
    /\ \/ projectsStore' = [listable |-> FALSE, entries |-> <<>>]
       \/ /\ Len(projectsStore.entries) < MaxDirs
          /\ \A k \in 1..Len(projectsStore.entries) :
                projectsStore.entries[k].name # NewProject.name
          /\ projectsStore' = [projectsStore EXCEPT !.entries = Append(@, NewProject)]
       \/ \E k \in 1..Len(projectsStore.entries) :
             /\ projectsStore.entries[k].isDirectory /\ projectsStore.entries[k].listable
             /\ \/ \E j \in 1..Len(projectsStore.entries[k].files) :
                      projectsStore' = [projectsStore EXCEPT !.entries[k] =
                                           WithoutFile(projectsStore.entries[k], j)]
                \/ projectsStore' = [projectsStore EXCEPT !.entries[k] =
                                         WithNewFile(projectsStore.entries[k])]
    /\ treeWrites' = treeWrites + 1
    /\ UNCHANGED <<configFile, pathLookup, query, listing, scan>>
    /\ UNCHANGED <<readerVars, corrVars, codecVars, settingsVars, promptVars, sessionVars, filesVars>>

\* While the request is served the session tool rewrites its config
\* document, or the document is removed.
ConfigFileChanges ==
    /\ Scanning
    /\ configFile' \in
          {[readable |-> FALSE, isNull |-> FALSE, hasProjects |-> FALSE, projects |-> <<>>],
           [readable |-> TRUE, isNull |-> FALSE, hasProjects |-> TRUE,
            projects |-> <<[path |-> <<"/", "a">>, meta |-> MetaAt(1)]>>]} \ {configFile}
    /\ treeWrites' = treeWrites + 1
    /\ UNCHANGED <<projectsStore, pathLookup, query, listing, scan>>
    /\ UNCHANGED <<readerVars, corrVars, codecVars, settingsVars, promptVars, sessionVars, filesVars>>

\* The directories of a store that is sorted and paged: "-a" and "-b" decode
\* to paths named "a" and "b", "a-b" to a second path named "b".
ListingDirNames == {<<"-", "a">>, <<"-", "b">>, <<"a", "-", "b">>}

\* Their contents: no session file, one, and two.
ListingContents ==
    {[isDirectory |-> TRUE, listable |-> TRUE, files |-> <<>>],
     [isDirectory |-> TRUE, listable |-> TRUE, files |->
        <<SessionFile(<<"s", "1">> \o DotJsonl, 1, TRUE)>>],
     [isDirectory |-> TRUE, listable |-> TRUE, files |->
        <<SessionFile(<<"s", "1">> \o DotJsonl, 1, TRUE),
          SessionFile(<<"s", "2">> \o DotJsonl, 2, TRUE)>>]}

ListingEntries == {StoreEntry(n, c) : n \in ListingDirNames, c \in ListingContents}

\* The stores of up to MaxDirs directories, in any listing order.
ListingStores ==
    {[listable |-> TRUE, entries |-> es] :
     es \in {s \in UNION {[1..n -> ListingEntries] : n \in 0..MaxDirs} :
                \A i, j \in 1..Len(s) : i # j => s[i].name # s[j].name}}

\* The limits and offsets a caller sends, as parseInt reads them: none (or
\* 0), small ones, a negative one and a limit above the maximum.
ListingLimits == {Undefined, 1, 2, -1, MaxLimit + 1}
ListingOffsets == {Undefined, 1, 2, -1}

ListingQueries ==
    [sortBy : SortKeys, sortOrder : {"asc", "desc"},
     limit : ListingLimits, offset : ListingOffsets]

ListingStart ==
    /\ configFile \in
          {[readable |-> FALSE, isNull |-> FALSE, hasProjects |-> FALSE, projects |-> <<>>],
           [readable |-> TRUE, isNull |-> FALSE, hasProjects |-> TRUE,
            projects |-> <<[path |-> <<"/", "b">>, meta |-> MetaAt(1)]>>]}
    /\ projectsStore \in ListingStores
    /\ pathLookup = EmptyMap
    /\ query = NoQuery
    /\ listing = NotListed
    /\ scan = NotScanning
    /\ treeWrites = 0

\* GET /projects, for a store of several directories and any sort and page.
ListProjectsPage == \E q \in ListingQueries : ListProjectsFor(q)

---------------------------------------------------------------------------
(* Message listing: GET /:encodedPath/sessions/:sessionId/messages *)

\* messages.filter(m => m.type === typeFilter), for 'user' and 'assistant'.
RECURSIVE FilterMessages(_, _)
FilterMessages(msgs, typeFilter) ==
    IF typeFilter \notin {"user", "assistant"} THEN msgs
    ELSE IF msgs = <<>> THEN <<>>
    ELSE (IF Head(msgs).type = typeFilter THEN <<Head(msgs)>> ELSE <<>>)
         \o FilterMessages(Tail(msgs), typeFilter)

\* The response of the message listing: whatever getSessionMessages gave,
\* filtered and paged, always with status 200.
MessageListResponse(state, content, q) ==
    LET msgs   == FilterMessages(GetSessionMessages(state, content), q.type)
        limit  == QueryLimit(q)
        offset == QueryOffset(q)
    IN  [status  |-> 200,
         data    |-> Slice(msgs, offset, offset + limit),
         total   |-> Len(msgs),
         limit   |-> limit,
         offset  |-> offset,
         hasMore |-> offset + limit < Len(msgs)]

MessageQueries ==
    {[type |-> t, limit |-> p.limit, offset |-> p.offset] :
     t \in {"all", "user", "assistant"}, p \in Pages}

\* The lines of the transcripts whose messages are listed.
MessageLines ==
    {MalformedLine, JsonLine(Snapshot, Undefined, NoModel),
     JsonLine("user", 1, NoModel), JsonLine("user", Undefined, NoModel),
     JsonLine("assistant", MaxTs, "m1")}

MessageTranscripts == UNION {[1..n -> MessageLines] : n \in 0..MaxLines}

MessagesStart ==
    /\ fileState \in {"ok", "unreadable", "missing"}
    /\ transcript \in MessageTranscripts
    /\ (fileState # "ok" => transcript = <<>>)
    /\ now \in NowTimes
    /\ bounds = NotRead
    /\ messages = <<>>
    /\ detail = NotRead
    /\ detailPc = "idle"
    /\ toolWrites = 0
    /\ messageList = NotRead /\ messageScan = NotListingMessages

\* GET /:encodedPath/sessions/:sessionId/messages with the query q arrives:
\* the handler reads the query and calls getSessionMessages, which runs up
\* to its readFile of the transcript.
ListMessagesFor(q) ==
    /\ messageScan.pc = "idle" /\ messageList = NotRead
    /\ messageScan' = [pc |-> "readFile", query |-> q]
    /\ UNCHANGED <<fileState, transcript, now, bounds, messages, detail, detailPc,
                   toolWrites, messageList>>
    /\ UNCHANGED <<corrVars, projectVars, codecVars, settingsVars, promptVars, sessionVars, filesVars>>

ListMessages == \E q \in MessageQueries : ListMessagesFor(q)

\* The same request without a query.
ListAllMessages == ListMessagesFor(NoMessageQuery)

\* The readFile of getSessionMessages settles on the transcript as it is by
\* then, and the handler filters, pages and answers.
MessagesRead ==
    /\ messageScan.pc = "readFile"
    /\ messageList' = MessageListResponse(fileState, transcript, messageScan.query)
    /\ messageScan' = [messageScan EXCEPT !.pc = "done"]
    /\ UNCHANGED <<fileState, transcript, now, bounds, messages, detail, detailPc,
                   toolWrites>>
    /\ UNCHANGED <<corrVars, projectVars, codecVars, settingsVars, promptVars, sessionVars, filesVars>>

---------------------------------------------------------------------------
(* Path codec: a round trip *)

CodecChars == {"/", "-", ".", "a", "1"}
Paths == UNION {[1..n -> CodecChars] : n \in 0..MaxPathLen}

CodecIdle ==
    /\ rtPath = <<>> /\ rtEncoded = <<>> /\ rtDecoded = <<>> /\ codecPc = "idle"

CodecStart ==
    /\ rtPath \in Paths /\ rtEncoded = <<>> /\ rtDecoded = <<>> /\ codecPc = "start"

Encode ==
    /\ codecPc = "start"
    /\ rtEncoded' = EncodeProjectPath(rtPath)
    /\ codecPc' = "encoded"
    /\ UNCHANGED <<rtPath, rtDecoded>>
    /\ UNCHANGED <<readerVars, corrVars, projectVars, settingsVars, promptVars, sessionVars, filesVars>>

Decode ==
    /\ codecPc = "encoded"
    /\ rtDecoded' = DecodeProjectPath(rtEncoded)
    /\ codecPc' = "decoded"
    /\ UNCHANGED <<rtPath, rtEncoded>>
    /\ UNCHANGED <<readerVars, corrVars, projectVars, settingsVars, promptVars, sessionVars, filesVars>>

---------------------------------------------------------------------------
(* Session listing and activity *)

\* Most transcript files of the project directory.
MaxSessions == 3
\* The length of a day (24 * 60 * 60 * 1000 ms), in instants of the model.
DayLength == 2
\* The window of the activity rollup, in days: its default and its maximum.
DefaultDays == 14
MaxDays == 90

\* s.replace(x, ''): the first occurrence of x is removed.
RemoveFirst(s, x) ==
    IF ~Includes(s, x) THEN s
    ELSE LET i == CHOOSE k \in 0..(Len(s) - Len(x)) :
                     /\ SubSeq(s, k + 1, k + Len(x)) = x
                     /\ \A j \in 0..(k - 1) : SubSeq(s, j + 1, j + Len(x)) # x
         IN  SubSeq(s, 1, i) \o SubSeq(s, i + Len(x) + 1, Len(s))

AgentPrefix == <<"a", "g", "e", "n", "t", "-">>

\* A flag raised by `agent-` anywhere in the id.
IsAgentIdAnywhere(sessionId) == Includes(sessionId, AgentPrefix)

\* sessionId.startsWith('agent-')
IsAgentId(sessionId) == StartsWith(sessionId, AgentPrefix)

\* The session built from the name of a transcript file and the bounds
\* getSessionBounds returned for it, its times still Date values.
\* (projectPath, the same resolved path for every session, is left out.)
SessionOf(name, b) ==
    LET sessionId == RemoveFirst(name, DotJsonl)
    IN  [id           |-> sessionId,
         startTime    |-> b.startTime,
         endTime      |-> b.endTime,
         messageCount |-> b.messageCount,
         model        |-> b.model,
         isAgent      |-> IsAgentId(sessionId)]

\* The filter by type: 'regular' and 'agent' filter, anything else does not.
FilterSessions(sessions, typeFilter) ==
    IF typeFilter = "regular" THEN SelectSeq(sessions, LAMBDA s : ~s.isAgent)
    ELSE IF typeFilter = "agent" THEN SelectSeq(sessions, LAMBDA s : s.isAgent)
    ELSE sessions

\* req.query.type || dflt: "none" is a parameter that is absent.
TypeFilterOf(type, dflt) == IF type = "none" THEN dflt ELSE type

\* A session as the response carries it: its times as ISO strings.
SessionJson(s) ==
    [id           |-> s.id,
     startTime    |-> ToISOString(s.startTime),
     endTime      |-> IF s.endTime # Undefined THEN ToISOString(s.endTime) ELSE Undefined,
     messageCount |-> s.messageCount,
     model        |-> s.model,
     isAgent      |-> s.isAgent]

\* Whether building the JSON of a session throws: a time that is an
\* Invalid Date.
SessionJsonThrows(s) ==
    \/ ToISOStringThrows(s.startTime)
    \/ s.endTime # Undefined /\ ToISOStringThrows(s.endTime)

SessionsError == [status |-> 500, code |-> "INTERNAL_ERROR"]

\* The response of GET /:encodedPath/sessions for the sessions built from
\* the files, in the order of sessionFiles.  startTime.toISOString() is
\* called for every file before the filter; a throw gives the 500.
SessionListResponse(all, q) ==
    LET sessions == FilterSessions(all, TypeFilterOf(q.type, "all"))
        limit    == QueryLimit(q)
        offset   == QueryOffset(q)
        page     == Slice(sessions, offset, offset + limit)
    IN  IF \E i \in 1..Len(all) : SessionJsonThrows(all[i]) THEN SessionsError
        ELSE [status  |-> 200,
              data    |-> [i \in 1..Len(page) |-> SessionJson(page[i])],
              total   |-> Len(sessions),
              limit   |-> limit,
              offset  |-> offset,
              hasMore |-> offset + limit < Len(sessions)]

\* Math.min(parseInt(req.query.days) || 14, 90): Undefined is a parameter
\* that is absent, not a number, or 0.
ActivityDays(days) == Min(IF days = Undefined THEN DefaultDays ELSE days, MaxDays)

\* a < b on Date values: false when a is an Invalid Date (NaN).
DateBefore(a, b) == ~IsInvalid(a) /\ a < b

\* toISOString().split('T')[0]: the UTC date, as the number of its day.
DateOf(t) == t \div DayLength

\* dailyMap.get(dateStr) || {sessions: [], totalMessages: 0}, the push, the
\* sum and dailyMap.set: a Map keeps its keys in insertion order.
DailyMapAdd(map, s) ==
    LET date == DateOf(s.startTime) IN
    IF \E k \in 1..Len(map) : map[k].date = date
    THEN [k \in 1..Len(map) |->
            IF map[k].date = date
            THEN [date          |-> date,
                  sessions      |-> Append(map[k].sessions, s),
                  totalMessages |-> map[k].totalMessages + s.messageCount]
            ELSE map[k]]
    ELSE Append(map, [date |-> date, sessions |-> <<s>>,
                      totalMessages |-> s.messageCount])

\* The loop over the sessions: those that started before the cutoff are left out.
RECURSIVE DailyMapLoop(_, _, _)
DailyMapLoop(sessions, cutoff, map) ==
    IF sessions = <<>> THEN map
    ELSE DailyMapLoop(Tail(sessions), cutoff,
                      IF DateBefore(Head(sessions).startTime, cutoff) THEN map
                      ELSE DailyMapAdd(map, Head(sessions)))

\* sort((a, b) => b.date.localeCompare(a.date)): the latest day first.
RECURSIVE InsertDay(_, _)
InsertDay(sorted, d) ==
    IF sorted = <<>> THEN <<d>>
    ELSE IF Head(sorted).date < d.date THEN <<d>> \o sorted
    ELSE <<Head(sorted)>> \o InsertDay(Tail(sorted), d)

RECURSIVE SortDays(_)
SortDays(days) ==
    IF days = <<>> THEN <<>>
    ELSE InsertDay(SortDays(SubSeq(days, 1, Len(days) - 1)), days[Len(days)])

\* One element of dailyActivity.
DayJson(d) ==
    [date          |-> d.date,
     sessions      |-> [i \in 1..Len(d.sessions) |-> SessionJson(d.sessions[i])],
     totalMessages |-> d.totalMessages,
     sessionCount  |-> Len(d.sessions)]

\* The loop computing the summary.
RECURSIVE SummaryLoop(_, _)
SummaryLoop(days, acc) ==
    IF days = <<>> THEN acc
    ELSE SummaryLoop(Tail(days),
            [totalSessions    |-> acc.totalSessions + Head(days).sessionCount,
             totalMessages    |-> acc.totalMessages + Head(days).totalMessages,
             maxDailyMessages |-> IF Head(days).totalMessages > acc.maxDailyMessages
                                  THEN Head(days).totalMessages
                                  ELSE acc.maxDailyMessages])

\* The response of GET /:encodedPath/activity for the sessions built from
\* the files, nowT being the clock when the cutoff is computed.
\* toISOString() is called on the sessions that pass the filter and the
\* cutoff only.
ActivityResponse(all, q, nowT) ==
    LET sessions == FilterSessions(all, TypeFilterOf(q.type, "regular"))
        cutoff   == nowT - ActivityDays(q.days) * DayLength
        dailyMap == DailyMapLoop(sessions, cutoff, <<>>)
    IN  IF \E k \in 1..Len(dailyMap) : \E i \in 1..Len(dailyMap[k].sessions) :
              SessionJsonThrows(dailyMap[k].sessions[i])
        THEN SessionsError
        ELSE LET dailyActivity == SortDays([k \in 1..Len(dailyMap) |-> DayJson(dailyMap[k])])
             IN  [status  |-> 200,
                  data    |-> dailyActivity,
                  summary |-> SummaryLoop(dailyActivity,
                                 [totalSessions |-> 0, totalMessages |-> 0,
                                  maxDailyMessages |-> 0])]

\* A transcript file of the project directory.
TranscriptFile(name, mtime, statOk, state, lines) ==
    [name |-> name, mtime |-> mtime, statOk |-> statOk, state |-> state, lines |-> lines]

\* The files a project directory is made of: regular sessions and agent
\* sessions, a name that holds `agent-` without starting with it, a name
\* that starts with `agent` only; transcripts stamped on the first and on
\* the last day, with a first line that carries no timestamp or one that
\* cannot be parsed, and a file that cannot be read.
CandidateFiles ==
    <<TranscriptFile(<<"s">> \o DotJsonl, 1, TRUE, "ok",
         <<JsonLine("user", 1, NoModel)>>),
      TranscriptFile(AgentPrefix \o <<"a">> \o DotJsonl, 2, TRUE, "ok",
         <<JsonLine("user", MaxTs, NoModel), JsonLine("assistant", MaxTs, "m1")>>),
      TranscriptFile(<<"t">> \o DotJsonl, 3, TRUE, "ok",
         <<JsonLine("user", MaxTs, NoModel)>>),
      TranscriptFile(<<"x">> \o AgentPrefix \o DotJsonl, 4, TRUE, "ok",
         <<JsonLine(Snapshot, Undefined, NoModel), JsonLine("user", 1, NoModel)>>),
      TranscriptFile(<<"a", "g", "e", "n", "t">> \o DotJsonl, 5, TRUE, "ok",
         <<JsonLine("user", Unparsable, NoModel)>>),
      TranscriptFile(AgentPrefix \o <<"b">> \o DotJsonl, 6, TRUE, "unreadable", <<>>)>>

\* The candidate files at the positions ks, in that order.
RECURSIVE FilesAt(_)
FilesAt(ks) ==
    IF ks = <<>> THEN <<>> ELSE <<CandidateFiles[Head(ks)]>> \o FilesAt(Tail(ks))

\* The candidate files a project directory holds, by position: a regular
\* session, an agent session and a session whose id holds `agent-` after
\* its first character and whose first line has no timestamp; a first day
\* session beside one whose timestamp cannot be parsed; a session beside a
\* transcript that cannot be read; two sessions of the same day.
DirectoryChoices == {<<1, 2, 4>>, <<1, 5>>, <<3, 6>>, <<2, 3>>}

\* The project directories: one that cannot be listed, one with a file that
\* is no transcript, and the directories of up to MaxSessions candidate
\* files, listed in the order of their names.
SessionDirs ==
    {[listable |-> FALSE, files |-> <<>>],
     [listable |-> TRUE, files |->
        <<TranscriptFile(<<"n", "o", "t", "e">>, 7, TRUE, "ok", <<>>),
          CandidateFiles[1]>>]}
    \cup {[listable |-> TRUE, files |-> FilesAt(ks)] :
          ks \in {c \in DirectoryChoices : Len(c) <= MaxSessions}}

\* The instants requests are served at: two days after the first day, and
\* the default and the longest window after it.
Clocks == {2 * DayLength, (DefaultDays + 1) * DayLength, (MaxDays + 1) * DayLength}

TypeFilters == {"none", "all", "regular", "agent"}
SessionQueries ==
    {[type |-> t, limit |-> Undefined, offset |-> Undefined] : t \in TypeFilters}
    \cup {[type |-> "all", limit |-> 1, offset |-> 1]}
ActivityQueries ==
    {[type |-> t, days |-> d] : t \in TypeFilters, d \in {Undefined, -1, 1, MaxDays + 1}}

NotAsked == [status |-> 0]

\* The handler of a session listing or an activity rollup: the await it is
\* suspended at, its request, the clock when the request arrived, the names
\* getSessionFiles stats and the mtimes it has (0 is a stat still pending),
\* the sorted sessionFiles and the bounds read so far.
NoSessionQuery == [type |-> "none"]
NotServing ==
    [pc |-> "idle", endpoint |-> "none", query |-> NoSessionQuery, start |-> 0,
     names |-> <<>>, mtimes |-> <<>>, files |-> <<>>, bounds |-> <<>>]

SessionsIdle ==
    /\ sessionDir = [listable |-> FALSE, files |-> <<>>]
    /\ clock = 2 * DayLength
    /\ sessionLists = [t \in TypeFilters |-> NotAsked]
    /\ activity = NotAsked
    /\ sessionScan = NotServing
    /\ dirWrites = 0
    /\ sessionRequests = 0

SessionsStart ==
    /\ sessionDir \in SessionDirs
    /\ clock \in Clocks
    /\ sessionLists = [t \in TypeFilters |-> NotAsked]
    /\ activity = NotAsked
    /\ sessionScan = NotServing
    /\ dirWrites = 0
    /\ sessionRequests = 0

\* GET /:encodedPath/sessions arrives: the handler runs up to
\* `await getClaudeConfig()`.
ListSessionsFor(q) ==
    /\ sessionScan.pc = "idle"
    /\ sessionRequests < MaxRequests
    /\ sessionRequests' = sessionRequests + 1
    /\ sessionScan' = [NotServing EXCEPT !.pc = "config", !.endpoint = "sessions",
                                         !.query = q, !.start = clock]
    /\ UNCHANGED <<sessionDir, clock, sessionLists, activity, dirWrites>>
    /\ UNCHANGED <<readerVars, corrVars, projectVars, codecVars, settingsVars, promptVars,
                   filesVars>>

ListSessions == \E q \in SessionQueries : ListSessionsFor(q)

\* The same request without a query.
ListAllSessions ==
    /\ sessionLists["none"] = NotAsked
    /\ ListSessionsFor([type |-> "none", limit |-> Undefined, offset |-> Undefined])

\* GET /:encodedPath/activity arrives: the handler runs up to
\* `await getClaudeConfig()`.
GetActivityFor(q, most) ==
    /\ sessionScan.pc = "idle"
    /\ sessionRequests < most
    /\ sessionRequests' = sessionRequests + 1
    /\ sessionScan' = [NotServing EXCEPT !.pc = "config", !.endpoint = "activity",
                                         !.query = q, !.start = clock]
    /\ UNCHANGED <<sessionDir, clock, sessionLists, activity, dirWrites>>
    /\ UNCHANGED <<readerVars, corrVars, projectVars, codecVars, settingsVars, promptVars,
                   filesVars>>

GetActivity == \E q \in ActivityQueries : GetActivityFor(q, MaxRollups)

\* The same request without a query.
GetDefaultActivity ==
    /\ activity = NotAsked
    /\ GetActivityFor([type |-> "none", days |-> Undefined], MaxRequests)

\* What the handler answers from the sessions it built: the rollup reads
\* the clock again for its cutoff.
SessionsResponse(sessions) ==
    IF sessionScan.endpoint = "sessions"
    THEN SessionListResponse(sessions, sessionScan.query)
    ELSE ActivityResponse(sessions, sessionScan.query, clock)

\* The response is sent and kept, with the clock when the request arrived
\* and when it was answered.
SessionsRespond(response) ==
    LET served == [status   |-> response.status,
                   query    |-> sessionScan.query,
                   at       |-> sessionScan.start,
                   until    |-> clock,
                   response |-> response]
    IN  /\ sessionScan' = NotServing
        /\ IF sessionScan.endpoint = "sessions"
           THEN /\ sessionLists' = [sessionLists EXCEPT ![sessionScan.query.type] = served]
                /\ activity' = activity
           ELSE /\ activity' = served
                /\ sessionLists' = sessionLists

\* The config is read: on a document that is null buildPathLookup throws
\* and the catch answers 500; otherwise getSessionFiles awaits its readdir.
SessionsConfigRead ==
    /\ sessionScan.pc = "config"
    /\ IF BuildPathLookupThrows(GetClaudeConfig(configFile))
       THEN SessionsRespond(SessionsError)
       ELSE /\ sessionScan' = [sessionScan EXCEPT !.pc = "readdir"]
            /\ UNCHANGED <<sessionLists, activity>>
    /\ UNCHANGED <<sessionDir, clock, dirWrites, sessionRequests>>
    /\ UNCHANGED <<readerVars, corrVars, projectVars, codecVars, settingsVars, promptVars, filesVars>>

\* The handler waits at `await Promise.all(...)` with no session file to read.
NothingToRead == [sessionScan EXCEPT !.pc = "respond", !.files = <<>>, !.bounds = <<>>]

\* The readdir of getSessionFiles settles: a failure is caught and gives [],
\* and so does a directory without transcripts; with no session file the
\* handler has nothing more to read.  Otherwise every .jsonl name is
\* stat'ed.
SessionDirListed ==
    /\ sessionScan.pc = "readdir"
    /\ LET jsonlFiles == IF sessionDir.listable THEN JsonlFiles(sessionDir.files) ELSE <<>>
       IN  sessionScan' =
              IF jsonlFiles = <<>> THEN NothingToRead
              ELSE [sessionScan EXCEPT
                       !.pc = "stat",
                       !.names = [k \in 1..Len(jsonlFiles) |-> jsonlFiles[k].name],
                       !.mtimes = [k \in 1..Len(jsonlFiles) |-> Undefined]]
    /\ UNCHANGED <<sessionLists, activity>>
    /\ UNCHANGED <<sessionDir, clock, dirWrites, sessionRequests>>
    /\ UNCHANGED <<readerVars, corrVars, projectVars, codecVars, settingsVars, promptVars, filesVars>>

\* The files of the directory that carry a name, as it is now: one, or none.
FileNamed(dir, name) ==
    IF ~dir.listable THEN <<>> ELSE SelectSeq(dir.files, LAMBDA f : f.name = name)

\* One stat of getSessionFiles settles, in any order: a stat that fails
\* rejects the Promise.all, the catch gives [] and the handler has nothing
\* to read; the last stat gives the names sorted by mtime, and
\* getSessionBounds is called for each, every call awaiting its readFile.
SessionFileStatted ==
    /\ sessionScan.pc = "stat"
    /\ \E j \in 1..Len(sessionScan.names) :
          /\ sessionScan.mtimes[j] = Undefined
          /\ LET found  == SelectSeq(FileNamed(sessionDir, sessionScan.names[j]),
                                     LAMBDA f : f.statOk)
                 mtimes == [sessionScan.mtimes EXCEPT ![j] = found[1].mtime]
             IN  sessionScan' =
                    IF found = <<>> THEN NothingToRead
                    ELSE IF \E k \in 1..Len(mtimes) : mtimes[k] = Undefined
                    THEN [sessionScan EXCEPT !.mtimes = mtimes]
                    ELSE [sessionScan EXCEPT
                             !.pc = "read",
                             !.mtimes = mtimes,
                             !.files = SortSessionFiles(
                                          [k \in 1..Len(mtimes) |->
                                              [name  |-> sessionScan.names[k],
                                               mtime |-> mtimes[k]]]),
                             !.bounds = [k \in 1..Len(mtimes) |-> NotRead]]
    /\ UNCHANGED <<sessionLists, activity>>
    /\ UNCHANGED <<sessionDir, clock, dirWrites, sessionRequests>>
    /\ UNCHANGED <<readerVars, corrVars, projectVars, codecVars, settingsVars, promptVars, filesVars>>

\* The readFile of one getSessionBounds settles, in any order, on the file
\* as it is now and with the clock as it is now.  In the session listing
\* the callback then calls toISOString, whose throw rejects the Promise.all
\* and gives the 500; the last read settles the Promise.all.
SessionFileRead ==
    /\ sessionScan.pc = "read"
    /\ \E i \in 1..Len(sessionScan.files) :
          /\ sessionScan.bounds[i] = NotRead
          /\ LET found   == FileNamed(sessionDir, sessionScan.files[i].name)
                 b       == IF found = <<>> THEN GetSessionBounds("missing", <<>>, clock)
                            ELSE GetSessionBounds(found[1].state, found[1].lines, clock)
                 allRead == [sessionScan.bounds EXCEPT ![i] = b]
             IN  IF /\ sessionScan.endpoint = "sessions"
                    /\ SessionJsonThrows(SessionOf(sessionScan.files[i].name, b))
                 THEN SessionsRespond(SessionsError)
                 ELSE /\ sessionScan' =
                            [sessionScan EXCEPT
                                !.pc = IF \E k \in 1..Len(allRead) : allRead[k] = NotRead
                                       THEN "read" ELSE "respond",
                                !.bounds = allRead]
                      /\ UNCHANGED <<sessionLists, activity>>
    /\ UNCHANGED <<sessionDir, clock, dirWrites, sessionRequests>>
    /\ UNCHANGED <<readerVars, corrVars, projectVars, codecVars, settingsVars, promptVars, filesVars>>

\* The handler resumes after `await Promise.all(...)` with the sessions in
\* the order of sessionFiles, filters them and answers; the rollup reads
\* the clock here for its cutoff.
SessionsAnswered ==
    /\ sessionScan.pc = "respond"
    /\ SessionsRespond(SessionsResponse(
           [k \in 1..Len(sessionScan.files) |->
               SessionOf(sessionScan.files[k].name, sessionScan.bounds[k])]))
    /\ UNCHANGED <<sessionDir, clock, dirWrites, sessionRequests>>
    /\ UNCHANGED <<readerVars, corrVars, projectVars, codecVars, settingsVars, promptVars, filesVars>>

\* Time passes, between two requests and while one is served.  The handler
\* reads the clock after a readFile and for the cutoff only, so that time
\* passing before the first readFile settles is time passing just after.
Tick ==
    /\ sessionScan.pc \in {"idle", "read", "respond"}
    /\ \E t \in Clocks : t > clock /\ clock' = t
    /\ UNCHANGED <<sessionDir, sessionLists, activity, sessionScan, dirWrites, sessionRequests>>
    /\ UNCHANGED <<readerVars, corrVars, projectVars, codecVars, settingsVars, promptVars, filesVars>>

\* What the session tool leaves in a transcript it rewrites, and the
\* modification time of a file it wrote while the request is served, later
\* than that of every file of the directories.
RewrittenLines ==
    <<JsonLine("user", MaxTs, NoModel), JsonLine("assistant", MaxTs, "m1")>>
RewrittenMtime == Len(CandidateFiles) + 2

\* Another process rewrites or removes a transcript of the directory
\* between two reads of the handler (before the directory is listed the
\* change only gives another directory).
SessionDirChanges ==
    /\ sessionScan.pc \in {"stat", "read"}
    /\ dirWrites < MaxDirWrites
    /\ sessionDir.listable
    /\ \E k \in 1..Len(sessionDir.files) :
          \/ /\ sessionDir.files[k].lines # RewrittenLines
             /\ sessionDir' =
                   [sessionDir EXCEPT !.files[k] =
                       TranscriptFile(sessionDir.files[k].name, RewrittenMtime, TRUE, "ok",
                                      RewrittenLines)]
          \/ sessionDir' =
                [sessionDir EXCEPT !.files =
                    SubSeq(sessionDir.files, 1, k - 1)
                    \o SubSeq(sessionDir.files, k + 1, Len(sessionDir.files))]
    /\ dirWrites' = dirWrites + 1
    /\ UNCHANGED <<clock, sessionLists, activity, sessionScan, sessionRequests>>
    /\ UNCHANGED <<readerVars, corrVars, projectVars, codecVars, settingsVars, promptVars, filesVars>>

---------------------------------------------------------------------------
(* Display path, file browsing and GET /config *)

\* getDisplayPath not called yet.
NotDisplayed == [done |-> FALSE, value |-> <<>>]

DisplayIdle == dpPath = <<>> /\ dpResult = NotDisplayed
\* The handler of a file request, before the request.
NotBrowsing == [pc |-> "idle", location |-> <<>>]
BrowseIdle ==
    /\ fileRequest = NotAsked /\ fileResponse = NotAsked
    /\ fileTree = <<>> /\ browse = NotBrowsing /\ fileWrites = 0
ConfigIdle == rawConfig = NotAsked /\ configResponse = NotAsked /\ configPc = "idle" /\ configWrites = 0
FilesIdle == DisplayIdle /\ BrowseIdle /\ ConfigIdle

\* The paths given to getDisplayPath: the home directory <<"/", "a">> is one
\* of them, with paths under it, beside it and outside it.
DisplayChars == {"/", "a", "b"}
DisplayPaths == UNION {[1..n -> DisplayChars] : n \in 0..MaxPathLen}

DisplayStart == dpPath \in DisplayPaths /\ dpResult = NotDisplayed

\* A call of getDisplayPath.
DisplayPath ==
    /\ ~dpResult.done
    /\ dpResult' = [done |-> TRUE, value |-> GetDisplayPath(dpPath)]
    /\ UNCHANGED <<dpPath, browseVars, configVars>>
    /\ UNCHANGED <<readerVars, corrVars, projectVars, codecVars, settingsVars, promptVars, sessionVars>>

\* Most segments of a requested path.
MaxSegments == 3

\* Names of path segments, as strings.
DotDot == <<".", ".">>
Tilde == <<"~">>
ClaudeName == <<".", "c", "l", "a", "u", "d", "e">>
ClaudeJsonName == ClaudeName \o DotJson
ClaudeOtherName == ClaudeName \o <<"x">>
SshName == <<".", "s">>
FileName == <<"a">>
BigName == <<"b">>
SocketName == <<"k">>
PlansName == <<"p", "l", "a", "n", "s">>
PlansOtherName == PlansName \o <<"x">>
PlanName == <<"p">> \o DotMd

\* A location is the sequence of its segments from the root; homedir() and
\* getClaudeDir().
HomeDir == <<<<"h">>>>
ClaudeDir == Append(HomeDir, ClaudeName)

\* The segments joined by "/", as path.join writes them.
RECURSIVE JoinSegments(_)
JoinSegments(segs) ==
    IF segs = <<>> THEN <<>>
    ELSE IF Len(segs) = 1 THEN segs[1]
    ELSE segs[1] \o <<"/">> \o JoinSegments(Tail(segs))

\* The absolute path of a location, as a string.
PathString(loc) == <<"/">> \o JoinSegments(loc)

\* path.normalize of an absolute path: `.` is dropped, `..` removes the
\* segment before it and is dropped at the root.
RECURSIVE NormalizeFrom(_, _)
NormalizeFrom(done, segs) ==
    IF segs = <<>> THEN done
    ELSE IF Head(segs) = <<".">> THEN NormalizeFrom(done, Tail(segs))
    ELSE IF Head(segs) = DotDot
         THEN NormalizeFrom(IF done = <<>> THEN <<>> ELSE SubSeq(done, 1, Len(done) - 1),
                            Tail(segs))
    ELSE NormalizeFrom(Append(done, Head(segs)), Tail(segs))

\* join(base, relativePath), which normalizes its result.
JoinPath(base, rel) == NormalizeFrom(<<>>, base \o rel)

\* getClaudeDir() + '/plans'
PlansDir == Append(ClaudeDir, PlansName)

\* The file system around the home directory when a request arrives: what
\* is at each location ("big" is a file above 100KB, "socket" a socket,
\* for which stat answers neither isDirectory() nor isFile()); nothing is
\* at a location it does not name.
HomeTree ==
    [loc \in {<<>>, HomeDir, ClaudeDir, Append(HomeDir, ClaudeOtherName),
              Append(HomeDir, SshName), PlansDir, Append(ClaudeDir, PlansOtherName),
              Append(ClaudeDir, FileName), Append(HomeDir, ClaudeJsonName),
              Append(Append(HomeDir, ClaudeOtherName), FileName),
              Append(Append(HomeDir, SshName), FileName),
              Append(PlansDir, PlanName),
              Append(Append(ClaudeDir, PlansOtherName), FileName),
              Append(ClaudeDir, BigName), Append(ClaudeDir, SocketName)} |->
        IF loc = Append(ClaudeDir, BigName) THEN "big"
        ELSE IF loc = Append(ClaudeDir, SocketName) THEN "socket"
        ELSE IF loc \in {Append(ClaudeDir, FileName), Append(HomeDir, ClaudeJsonName),
                         Append(Append(HomeDir, ClaudeOtherName), FileName),
                         Append(Append(HomeDir, SshName), FileName),
                         Append(PlansDir, PlanName),
                         Append(Append(ClaudeDir, PlansOtherName), FileName)}
        THEN "file"
        ELSE "directory"]

\* What stat finds at a location.
KindAt(tree, loc) == IF loc \in DOMAIN tree THEN tree[loc] ELSE "none"

\* A response: whether a listing or file content was returned, of which
\* location, and whether the file system was looked at.
Rejected(status) ==
    [status |-> status, type |-> "error", served |-> FALSE, touched |-> FALSE,
     location |-> <<>>]
Answered(status, type, served, loc) ==
    [status |-> status, type |-> type, served |-> served, touched |-> TRUE,
     location |-> loc]

\* requestedPath.startsWith(normalizedClaudeDir), on the path strings.
BrowseAllowed(requestedPath) ==
    StartsWith(PathString(requestedPath), PathString(ClaudeDir))

\* GET /files, after its stat: the await it goes to, or "respond".
BrowseAfterStat(kind) ==
    IF kind = "directory" THEN "readdir"
    ELSE IF kind = "file" THEN "readFile"
    ELSE "respond"

\* GET /files, the response given after the stat alone: 404 NOT_FOUND when
\* stat throws, `File too large` without content for a file above 100KB,
\* 400 INVALID_TYPE for what is neither a directory nor a file.
BrowseStatResponse(kind, requestedPath) ==
    IF kind = "none" THEN Answered(404, "error", FALSE, requestedPath)
    ELSE IF kind = "big" THEN Answered(200, "file", FALSE, requestedPath)
    ELSE Answered(400, "error", FALSE, requestedPath)

\* GET /files, the response after readdir or readFile settled on what is at
\* the location by then: readdir throws on anything but a directory and
\* readFile on anything but a file (ENOENT, ENOTDIR, EISDIR, ENXIO for a
\* socket), which gives the 404; readFile does not look at the size.
BrowseReadResponse(at, kind, requestedPath) ==
    IF at = "readdir" /\ kind = "directory"
    THEN Answered(200, "directory", TRUE, requestedPath)
    ELSE IF at = "readFile" /\ kind \in {"file", "big"}
    THEN Answered(200, "file", TRUE, requestedPath)
    ELSE Answered(404, "error", FALSE, requestedPath)

\* relativePath.startsWith('~/') ? relativePath.slice(2) : relativePath
StripTilde(relativePath) ==
    IF Len(relativePath) >= 2 /\ relativePath[1] = Tilde THEN Tail(relativePath)
    ELSE relativePath

\* normalizedPath.startsWith('.claude') || normalizedPath === '.claude.json'
ReadAllowed(normalizedPath) ==
    \/ StartsWith(JoinSegments(normalizedPath), ClaudeName)
    \/ JoinSegments(normalizedPath) = ClaudeJsonName

\* readClaudeFile, after its stat: a directory is listed, anything else
\* that exists is read, a socket too (its readFile throws); a response
\* without `error` has status 200, one with the message of a caught error
\* 404.
ReadAfterStat(kind) ==
    IF kind = "directory" THEN "readdir"
    ELSE IF kind = "none" THEN "respond"
    ELSE "readFile"

\* readClaudeFile, the result after readdir or readFile settled; a content
\* above 100000 characters is returned cut to that length.
ReadClaudeFileResult(at, kind, fullPath) ==
    IF at = "readdir" /\ kind = "directory"
    THEN Answered(200, "directory", TRUE, fullPath)
    ELSE IF at = "readFile" /\ kind \in {"file", "big"}
    THEN Answered(200, "file", TRUE, fullPath)
    ELSE Answered(404, "error", FALSE, fullPath)

\* normalizedPath.startsWith(join(claudeDir, 'plans')), on the path strings.
PlanAllowed(normalizedPath) ==
    StartsWith(PathString(normalizedPath), PathString(PlansDir))

\* GET /plans/:planName, the response after readFile settled on what is at
\* the location by then: the content of the file, 404 when readFile threw.
PlanReadResponse(kind, planPath) ==
    IF kind \in {"file", "big"} THEN Answered(200, "file", TRUE, planPath)
    ELSE Answered(404, "error", FALSE, planPath)

\* The names a requested path is made of.
SegmentNames ==
    {DotDot, Tilde, ClaudeName, ClaudeJsonName, ClaudeOtherName, SshName, FileName, BigName,
     SocketName}
RequestedPaths == UNION {[1..n -> SegmentNames] : n \in 0..MaxSegments}
\* The names of a plan, decoded from the one segment of the URL.
PlanSegmentNames == {DotDot, PlanName, PlansOtherName, SshName, FileName}
RequestedPlans == UNION {[1..n -> PlanSegmentNames] : n \in 1..MaxSegments}

BrowseStart ==
    /\ fileRequest \in
          {[endpoint |-> e, path |-> p] :
              e \in {"files", "readClaudeFile"}, p \in RequestedPaths}
          \cup {[endpoint |-> "plans", path |-> p] : p \in RequestedPlans}
    /\ fileResponse = NotAsked
    /\ fileTree = HomeTree
    /\ browse = NotBrowsing
    /\ fileWrites = 0

\* GET /files: the path is validated, then stat is awaited.
BrowseFiles ==
    /\ browse.pc = "idle"
    /\ fileRequest.endpoint = "files"
    /\ LET requestedPath == JoinPath(ClaudeDir, fileRequest.path)
       IN  IF ~BrowseAllowed(requestedPath)
           THEN /\ fileResponse' = Rejected(400)
                /\ browse' = [pc |-> "done", location |-> requestedPath]
           ELSE /\ fileResponse' = fileResponse
                /\ browse' = [pc |-> "stat", location |-> requestedPath]
    /\ UNCHANGED <<dpPath, dpResult, fileRequest, fileTree, fileWrites, configVars>>
    /\ UNCHANGED <<readerVars, corrVars, projectVars, codecVars, settingsVars, promptVars, sessionVars>>

\* GET /files: stat settled.
BrowseStatted ==
    /\ browse.pc = "stat"
    /\ fileRequest.endpoint = "files"
    /\ LET kind == KindAt(fileTree, browse.location)
       IN  IF BrowseAfterStat(kind) = "respond"
           THEN /\ fileResponse' = BrowseStatResponse(kind, browse.location)
                /\ browse' = [browse EXCEPT !.pc = "done"]
           ELSE /\ fileResponse' = fileResponse
                /\ browse' = [browse EXCEPT !.pc = BrowseAfterStat(kind)]
    /\ UNCHANGED <<dpPath, dpResult, fileRequest, fileTree, fileWrites, configVars>>
    /\ UNCHANGED <<readerVars, corrVars, projectVars, codecVars, settingsVars, promptVars, sessionVars>>

\* GET /files: readdir or readFile settled.
BrowseRead ==
    /\ browse.pc \in {"readdir", "readFile"}
    /\ fileRequest.endpoint = "files"
    /\ fileResponse' = BrowseReadResponse(browse.pc, KindAt(fileTree, browse.location),
                                          browse.location)
    /\ browse' = [browse EXCEPT !.pc = "done"]
    /\ UNCHANGED <<dpPath, dpResult, fileRequest, fileTree, fileWrites, configVars>>
    /\ UNCHANGED <<readerVars, corrVars, projectVars, codecVars, settingsVars, promptVars, sessionVars>>

\* readClaudeFile: the path is validated, then stat is awaited.
ReadClaudeFile ==
    /\ browse.pc = "idle"
    /\ fileRequest.endpoint = "readClaudeFile"
    /\ LET normalizedPath == StripTilde(fileRequest.path)
           fullPath       == JoinPath(HomeDir, normalizedPath)
       IN  IF ~ReadAllowed(normalizedPath)
           THEN /\ fileResponse' = Rejected(403)
                /\ browse' = [pc |-> "done", location |-> fullPath]
           ELSE /\ fileResponse' = fileResponse
                /\ browse' = [pc |-> "stat", location |-> fullPath]
    /\ UNCHANGED <<dpPath, dpResult, fileRequest, fileTree, fileWrites, configVars>>
    /\ UNCHANGED <<readerVars, corrVars, projectVars, codecVars, settingsVars, promptVars, sessionVars>>

\* readClaudeFile: stat settled.
ReadClaudeFileStatted ==
    /\ browse.pc = "stat"
    /\ fileRequest.endpoint = "readClaudeFile"
    /\ LET kind == KindAt(fileTree, browse.location)
       IN  IF ReadAfterStat(kind) = "respond"
           THEN /\ fileResponse' = Answered(404, "error", FALSE, browse.location)
                /\ browse' = [browse EXCEPT !.pc = "done"]
           ELSE /\ fileResponse' = fileResponse
                /\ browse' = [browse EXCEPT !.pc = ReadAfterStat(kind)]
    /\ UNCHANGED <<dpPath, dpResult, fileRequest, fileTree, fileWrites, configVars>>
    /\ UNCHANGED <<readerVars, corrVars, projectVars, codecVars, settingsVars, promptVars, sessionVars>>

\* readClaudeFile: readdir or readFile settled.
ReadClaudeFileRead ==
    /\ browse.pc \in {"readdir", "readFile"}
    /\ fileRequest.endpoint = "readClaudeFile"
    /\ fileResponse' = ReadClaudeFileResult(browse.pc, KindAt(fileTree, browse.location),
                                            browse.location)
    /\ browse' = [browse EXCEPT !.pc = "done"]
    /\ UNCHANGED <<dpPath, dpResult, fileRequest, fileTree, fileWrites, configVars>>
    /\ UNCHANGED <<readerVars, corrVars, projectVars, codecVars, settingsVars, promptVars, sessionVars>>

\* GET /plans/:planName: the path is validated, then readFile is awaited.
GetPlan ==
    /\ browse.pc = "idle"
    /\ fileRequest.endpoint = "plans"
    /\ LET planPath == JoinPath(PlansDir, fileRequest.path)
       IN  IF ~PlanAllowed(planPath)
           THEN /\ fileResponse' = Rejected(400)
                /\ browse' = [pc |-> "done", location |-> planPath]
           ELSE /\ fileResponse' = fileResponse
                /\ browse' = [pc |-> "readFile", location |-> planPath]
    /\ UNCHANGED <<dpPath, dpResult, fileRequest, fileTree, fileWrites, configVars>>
    /\ UNCHANGED <<readerVars, corrVars, projectVars, codecVars, settingsVars, promptVars, sessionVars>>

\* GET /plans/:planName: readFile settled.
PlanRead ==
    /\ browse.pc = "readFile"
    /\ fileRequest.endpoint = "plans"
    /\ fileResponse' = PlanReadResponse(KindAt(fileTree, browse.location), browse.location)
    /\ browse' = [browse EXCEPT !.pc = "done"]
    /\ UNCHANGED <<dpPath, dpResult, fileRequest, fileTree, fileWrites, configVars>>
    /\ UNCHANGED <<readerVars, corrVars, projectVars, codecVars, settingsVars, promptVars, sessionVars>>

\* Another process replaces what is at the requested location while the
\* handler awaits: the file or directory is removed, created, or replaced
\* by one of another kind, or the file grows or shrinks.
FilesChange ==
    /\ browse.pc \in {"stat", "readdir", "readFile"}
    /\ fileWrites < MaxWrites
    /\ \E kind \in {"none", "file", "big", "directory", "socket"} :
          /\ kind # KindAt(fileTree, browse.location)
          /\ fileTree' = [loc \in DOMAIN fileTree \cup {browse.location} |->
                             IF loc = browse.location THEN kind ELSE fileTree[loc]]
    /\ fileWrites' = fileWrites + 1
    /\ UNCHANGED <<dpPath, dpResult, fileRequest, fileResponse, browse, configVars>>
    /\ UNCHANGED <<readerVars, corrVars, projectVars, codecVars, settingsVars, promptVars, sessionVars>>

---------------------------------------------------------------------------
(* GET /config: redaction of the config document *)

\* Most fields of the config document's top-level object.
MaxFields == 2

\* A JSON value, as JSON.parse returns it: null, a number, a string (its
\* characters), an array, or an object (its own fields, in the order
\* Object.entries gives them).
JsonNull == [k |-> "null", v |-> <<>>, fields |-> <<>>, items |-> <<>>]
JsonNumber == [k |-> "num", v |-> <<>>, fields |-> <<>>, items |-> <<>>]
JsonString(s) == [k |-> "str", v |-> s, fields |-> <<>>, items |-> <<>>]
JsonObject(fields) == [k |-> "obj", v |-> <<>>, fields |-> fields, items |-> <<>>]
JsonArray(items) == [k |-> "arr", v |-> <<>>, fields |-> <<>>, items |-> items]
Field(key, value) == [key |-> key, value |-> value]

\* SENSITIVE_FIELDS
SensitiveFields ==
    {<<"o", "a", "u", "t", "h", "A", "c", "c", "o", "u", "n", "t">>,
     <<"a", "c", "c", "e", "s", "s", "T", "o", "k", "e", "n">>,
     <<"r", "e", "f", "r", "e", "s", "h", "T", "o", "k", "e", "n">>,
     <<"a", "p", "i", "K", "e", "y">>,
     <<"c", "r", "e", "d", "e", "n", "t", "i", "a", "l", "s">>,
     <<"t", "o", "k", "e", "n">>,
     <<"s", "e", "c", "r", "e", "t">>}

\* The capital letters of ASCII and their small letters.
UpperLetters ==
    <<"A", "B", "C", "D", "E", "F", "G", "H", "I", "J", "K", "L", "M",
      "N", "O", "P", "Q", "R", "S", "T", "U", "V", "W", "X", "Y", "Z">>
LowerLetters ==
    <<"a", "b", "c", "d", "e", "f", "g", "h", "i", "j", "k", "l", "m",
      "n", "o", "p", "q", "r", "s", "t", "u", "v", "w", "x", "y", "z">>

\* toLowerCase of a character and of a string, for ASCII characters: a
\* capital letter gives its small letter, every other character itself.
LowerChar(c) ==
    IF \E i \in 1..Len(UpperLetters) : UpperLetters[i] = c
    THEN LowerLetters[CHOOSE i \in 1..Len(UpperLetters) : UpperLetters[i] = c]
    ELSE c
ToLowerCase(s) == [i \in 1..Len(s) |-> LowerChar(s[i])]

\* SENSITIVE_FIELDS.some(field => key.toLowerCase().includes(field.toLowerCase()))
IsSensitive(key) ==
    \E field \in SensitiveFields : Includes(ToLowerCase(key), ToLowerCase(field))

RedactedValue == JsonString(<<"[", "R", "E", "D", "A", "C", "T", "E", "D", "]">>)

\* The decimal digits of a natural number: the key of an array index.
RECURSIVE Decimal(_)
Decimal(n) ==
    IF n < 10 THEN <<ToString(n)>> ELSE Decimal(n \div 10) \o <<ToString(n % 10)>>

\* Object.entries(value) of a value that is not null: the fields of an
\* object, the elements of an array and the characters of a string under
\* their indexes, nothing for a number.
ObjectEntries(value) ==
    IF value.k = "obj" THEN value.fields
    ELSE IF value.k = "arr"
    THEN [i \in 1..Len(value.items) |-> Field(Decimal(i - 1), value.items[i])]
    ELSE IF value.k = "str"
    THEN [i \in 1..Len(value.v) |-> Field(Decimal(i - 1), JsonString(<<value.v[i]>>))]
    ELSE <<>>

\* The key whose assignment `result[key] = ...` sets the prototype of the
\* result and stores no field.
ProtoKey == <<"_", "_", "p", "r", "o", "t", "o", "_", "_">>

\* redactSensitiveData: a sensitive key's value is replaced, a nested object
\* is redacted in turn, every other value (null and an array as well) is
\* copied; the result is a new object, which gets no field `__proto__`.
RECURSIVE RedactSensitiveData(_)
RedactSensitiveData(obj) ==
    LET entries == SelectSeq(ObjectEntries(obj), LAMBDA e : e.key # ProtoKey)
    IN  JsonObject([i \in 1..Len(entries) |->
            LET key   == entries[i].key
                value == entries[i].value
            IN  IF IsSensitive(key) THEN Field(key, RedactedValue)
                ELSE IF value.k = "obj" THEN Field(key, RedactSensitiveData(value))
                ELSE Field(key, value)])

\* The file ~/.claude.json when it cannot be read or parsed.
NoConfigDoc == [k |-> "unreadable", v |-> <<>>, fields |-> <<>>, items |-> <<>>]

\* The response of GET /config: the redacted document; {} when the file
\* cannot be read or parsed and when it holds null (Object.entries throws).
ConfigResponse(doc) ==
    IF doc.k \in {"unreadable", "null"} THEN [status |-> 200, body |-> JsonObject(<<>>)]
    ELSE [status |-> 200, body |-> RedactSensitiveData(doc)]

\* The keys of the documents: a plain one, a sensitive field name, keys that
\* hold one in other letter case, and `__proto__`.
ConfigKeys ==
    {<<"n", "a", "m", "e">>, <<"a", "p", "i", "K", "e", "y">>,
     <<"x", "T", "O", "K", "E", "N">>, <<"S", "E", "C", "R", "E", "T">>, ProtoKey}
\* The values under a key of the top-level object: null, a string, an object
\* of at most one field, an array of at most one string or such object.
InnerObjects ==
    {JsonObject(<<>>)}
    \cup {JsonObject(<<Field(key, JsonString(<<"v">>))>>) : key \in ConfigKeys}
InnerValues ==
    {JsonNull, JsonString(<<"v">>)} \cup InnerObjects
    \cup {JsonArray(<<>>)}
    \cup {JsonArray(<<x>>) : x \in {JsonString(<<"v">>)} \cup InnerObjects}
\* The documents: no document, a document that is no object, and the
\* objects of up to MaxFields fields.
ConfigDocs ==
    {NoConfigDoc, JsonNull, JsonNumber, JsonString(<<>>), JsonString(<<"v", "w">>)}
    \cup {JsonArray(<<>>)}
    \cup {JsonArray(<<x>>) : x \in InnerValues}
    \cup {JsonArray(<<JsonString(<<"v">>), JsonObject(<<Field(<<"a", "p", "i", "K", "e", "y">>,
                                                           JsonString(<<"v">>))>>)>>)}
    \cup UNION {{JsonObject([i \in 1..n |-> Field(keys[i], values[i])]) :
                    keys \in {ks \in [1..n -> ConfigKeys] :
                                 \A i, j \in 1..n : i # j => ks[i] # ks[j]},
                    values \in [1..n -> InnerValues]} : n \in 0..MaxFields}

ConfigStart == rawConfig \in ConfigDocs /\ configResponse = NotAsked /\ configPc = "idle" /\ configWrites = 0

\* GET /config arrives: the handler runs up to the readFile of
\* ~/.claude.json.
GetConfig ==
    /\ configPc = "idle"
    /\ configPc' = "readFile"
    /\ UNCHANGED <<dpPath, dpResult, browseVars, rawConfig, configResponse, configWrites>>
    /\ UNCHANGED <<readerVars, corrVars, projectVars, codecVars, settingsVars, promptVars, sessionVars>>

\* readFile settles on the document the file holds by then; it is parsed,
\* redacted and sent.
ConfigRead ==
    /\ configPc = "readFile"
    /\ configResponse' = ConfigResponse(rawConfig)
    /\ configPc' = "done"
    /\ UNCHANGED <<dpPath, dpResult, browseVars, rawConfig, configWrites>>
    /\ UNCHANGED <<readerVars, corrVars, projectVars, codecVars, settingsVars, promptVars, sessionVars>>

\* What another process leaves in ~/.claude.json: nothing that can be read,
\* null, or an object with a plain or a sensitive key.
RewrittenDocs ==
    {NoConfigDoc, JsonNull,
     JsonObject(<<Field(<<"n", "a", "m", "e">>, JsonString(<<"v">>))>>),
     JsonObject(<<Field(<<"a", "p", "i", "K", "e", "y">>, JsonString(<<"v">>))>>)}

\* Another process rewrites ~/.claude.json while the handler awaits.
ConfigChanges ==
    /\ configPc = "readFile"
    /\ configWrites < MaxWrites
    /\ \E doc \in RewrittenDocs : doc # rawConfig /\ rawConfig' = doc
    /\ configWrites' = configWrites + 1
    /\ UNCHANGED <<dpPath, dpResult, browseVars, configResponse, configPc>>
    /\ UNCHANGED <<readerVars, corrVars, projectVars, codecVars, settingsVars, promptVars, sessionVars>>

---------------------------------------------------------------------------
(* Application settings: GET and PUT /api/settings *)

ConfigDirName == <<".", "c", "o", "n", "f", "i", "g">>
AppJsonName == <<"a", "p", "p">> \o DotJson

\* The directories the server is started in, process.cwd(): the directory
\* it is installed in, beside ~/.claude, and ~/.claude itself.
AppDir == Append(HomeDir, <<"e">>)
WorkingDirs == {AppDir, ClaudeDir}

\* join(process.cwd(), '.config') and CONFIG_PATH
ConfigDir == JoinPath(cwd, <<ConfigDirName>>)
ConfigPath == JoinPath(cwd, <<ConfigDirName, AppJsonName>>)

\* The location is the directory or lies under it.
IsUnder(loc, dir) == Len(loc) >= Len(dir) /\ SubSeq(loc, 1, Len(dir)) = dir

\* The file system with what is at one location replaced.
TreeWith(tree, at, kind) ==
    [loc \in DOMAIN tree \cup {at} |-> IF loc = at THEN kind ELSE tree[loc]]

\* The request bodies as request.json() reads them: settings, and a body it
\* throws on.
Settings(pathPrefix) == [parses |-> TRUE, pathPrefix |-> pathPrefix]
MalformedBody == [parses |-> FALSE, pathPrefix |-> <<>>]
SettingsBodies == {MalformedBody, Settings(<<>>), Settings(<<"~/Projects">>)}

\* JSON.stringify(settings, null, 2), token by token.
Stringify(pathPrefix) == <<"{", "pathPrefix", "[">> \o pathPrefix \o <<"]", "}">>

\* JSON.parse of the text of app.json succeeds on a whole document only;
\* what it returns then.
ParsesAsSettings(text) ==
    /\ Len(text) >= 5
    /\ SubSeq(text, 1, 3) = <<"{", "pathPrefix", "[">>
    /\ SubSeq(text, Len(text) - 1, Len(text)) = <<"]", "}">>
ParsedPathPrefix(text) == SubSeq(text, 4, Len(text) - 2)

NotPut == [status |-> 0]
SaveFailed == [status |-> 500, pathPrefix |-> <<>>]
Saved(pathPrefix) == [status |-> 200, pathPrefix |-> pathPrefix]

\* The handler of PUT between two requests; `wrote` is whether writeFile
\* fulfilled.
NotPutting == [pc |-> "idle", body |-> MalformedBody, wrote |-> FALSE]

\* defaultSettings
DefaultSettings == <<>>

SettingsIdle ==
    /\ cwd = AppDir /\ appSettings = <<>>
    /\ settingsResponse = NotPut /\ put = NotPutting /\ savedSettings = NotAsked /\ settingsScan = "idle"

\* GET /api/settings arrives: the handler runs up to the readFile of
\* CONFIG_PATH.
GetSettings ==
    /\ settingsScan = "idle"
    /\ settingsScan' = "readFile"
    /\ UNCHANGED <<cwd, appSettings, settingsResponse, put, savedSettings>>
    /\ UNCHANGED <<readerVars, corrVars, projectVars, codecVars, sessionVars, filesVars,
                   promptVars>>

\* readFile settles on what the file holds by then, a PUT's open or write
\* in between included; a file that cannot be read or parsed gives the
\* default settings.
SettingsRead ==
    /\ settingsScan = "readFile"
    /\ savedSettings' =
          Saved(IF /\ KindAt(fileTree, ConfigPath) \in {"file", "big"}
                   /\ ParsesAsSettings(appSettings)
                THEN ParsedPathPrefix(appSettings)
                ELSE DefaultSettings)
    /\ settingsScan' = "done"
    /\ UNCHANGED <<cwd, appSettings, settingsResponse, put>>
    /\ UNCHANGED <<readerVars, corrVars, projectVars, codecVars, sessionVars, filesVars,
                   promptVars>>

\* PUT /api/settings arrives: the handler awaits request.json().
PutSettings ==
    /\ put.pc = "idle" /\ settingsResponse = NotPut
    /\ \E body \in SettingsBodies : put' = [pc |-> "json", body |-> body, wrote |-> FALSE]
    /\ UNCHANGED <<cwd, appSettings, settingsResponse, savedSettings, settingsScan>>
    /\ UNCHANGED <<readerVars, corrVars, projectVars, codecVars, sessionVars, filesVars,
                   promptVars>>

\* request.json() settles: a body that does not parse is the 500; otherwise
\* mkdir of .config is awaited.
SettingsParsed ==
    /\ put.pc = "json"
    /\ IF ~put.body.parses
       THEN settingsResponse' = SaveFailed /\ put' = [put EXCEPT !.pc = "done"]
       ELSE settingsResponse' = settingsResponse /\ put' = [put EXCEPT !.pc = "mkdir"]
    /\ UNCHANGED <<cwd, appSettings, savedSettings, settingsScan>>
    /\ UNCHANGED <<readerVars, corrVars, projectVars, codecVars, sessionVars, filesVars,
                   promptVars>>

\* mkdir(.config, {recursive: true}) settles: a directory that is there is
\* left as it is, one that is not is made or the call fails, and anything
\* else of that name fails it; the handler then calls writeFile, or the
\* catch answers 500.
SettingsMkdir ==
    /\ put.pc = "mkdir"
    /\ LET kind == KindAt(fileTree, ConfigDir)
       IN  \E made \in (IF kind = "directory" THEN {TRUE}
                        ELSE IF kind = "none" THEN BOOLEAN ELSE {FALSE}) :
              IF made
              THEN /\ fileTree' = TreeWith(fileTree, ConfigDir, "directory")
                   /\ settingsResponse' = settingsResponse
                   /\ put' = [put EXCEPT !.pc = "open"]
              ELSE /\ fileTree' = fileTree
                   /\ settingsResponse' = SaveFailed
                   /\ put' = [put EXCEPT !.pc = "done"]
    /\ UNCHANGED <<cwd, appSettings, savedSettings, settingsScan>>
    /\ UNCHANGED <<dpPath, dpResult, fileRequest, fileResponse, browse, fileWrites,
                   configVars>>
    /\ UNCHANGED <<readerVars, corrVars, projectVars, codecVars, sessionVars, promptVars>>

\* writeFile opens the file at CONFIG_PATH: the file is created or truncated,
\* or the open fails and the catch answers 500.
SettingsOpened ==
    /\ put.pc = "open"
    /\ LET canOpen == /\ KindAt(fileTree, ConfigDir) = "directory"
                      /\ KindAt(fileTree, ConfigPath) \in {"none", "file", "big"}
       IN  \E opened \in (IF canOpen THEN BOOLEAN ELSE {FALSE}) :
              IF opened
              THEN /\ fileTree' = TreeWith(fileTree, ConfigPath, "file")
                   /\ appSettings' = <<>>
                   /\ settingsResponse' = settingsResponse
                   /\ put' = [put EXCEPT !.pc = "write"]
              ELSE /\ fileTree' = fileTree
                   /\ appSettings' = appSettings
                   /\ settingsResponse' = SaveFailed
                   /\ put' = [put EXCEPT !.pc = "done"]
    /\ UNCHANGED <<cwd, savedSettings, settingsScan>>
    /\ UNCHANGED <<dpPath, dpResult, fileRequest, fileResponse, browse, fileWrites,
                   configVars>>
    /\ UNCHANGED <<readerVars, corrVars, projectVars, codecVars, sessionVars, promptVars>>

\* The write of writeFile ends: the whole text is in the file and writeFile
\* fulfils, or the write failed with a part of the text, or none of it, in
\* the file, and writeFile rejects.  The handler has not resumed yet.
SettingsWritten ==
    /\ put.pc = "write"
    /\ LET text == Stringify(put.body.pathPrefix)
       IN  \E n \in 0..Len(text) :
              /\ appSettings' = SubSeq(text, 1, n)
              /\ put' = [put EXCEPT !.pc = "respond", !.wrote = (n = Len(text))]
    /\ UNCHANGED <<cwd, settingsResponse, savedSettings, settingsScan>>
    /\ UNCHANGED <<readerVars, corrVars, projectVars, codecVars, sessionVars, filesVars,
                   promptVars>>

\* The handler resumes after writeFile: the settings of the request are the
\* response, or the catch answers 500.
SettingsRespond ==
    /\ put.pc = "respond"
    /\ settingsResponse' = IF put.wrote THEN Saved(put.body.pathPrefix) ELSE SaveFailed
    /\ put' = [put EXCEPT !.pc = "done"]
    /\ UNCHANGED <<cwd, appSettings, savedSettings, settingsScan>>
    /\ UNCHANGED <<readerVars, corrVars, projectVars, codecVars, sessionVars, filesVars,
                   promptVars>>

---------------------------------------------------------------------------
(* Prompt history: GET /history *)

\* A line of ~/.claude/history.jsonl: blank, one JSON.parse throws on, the
\* JSON `null`, or an entry with its timestamp and its project ("" when it
\* has none).
BlankPrompt == [k |-> "blank", timestamp |-> Undefined, project |-> <<>>]
MalformedPrompt == [k |-> "malformed", timestamp |-> Undefined, project |-> <<>>]
NullPrompt == [k |-> "null", timestamp |-> Undefined, project |-> <<>>]
Prompt(timestamp, project) == [k |-> "entry", timestamp |-> timestamp, project |-> project]

\* The lines JSON.parse accepts, in file order.
RECURSIVE ParsedPrompts(_)
ParsedPrompts(lines) ==
    IF lines = <<>> THEN <<>>
    ELSE (IF Head(lines).k \in {"null", "entry"} THEN <<Head(lines)>> ELSE <<>>)
         \o ParsedPrompts(Tail(lines))

\* entries.filter(e => e.project?.includes(projectFilter))
RECURSIVE FilterPrompts(_, _)
FilterPrompts(entries, projectFilter) ==
    IF entries = <<>> THEN <<>>
    ELSE (IF Includes(Head(entries).project, projectFilter) THEN <<Head(entries)>> ELSE <<>>)
         \o FilterPrompts(Tail(entries), projectFilter)

\* entries.sort((a, b) => b.timestamp - a.timestamp): stable, most recent
\* first.
RECURSIVE InsertPrompt(_, _)
InsertPrompt(sorted, e) ==
    IF sorted = <<>> THEN <<e>>
    ELSE IF Head(sorted).timestamp >= e.timestamp
         THEN <<Head(sorted)>> \o InsertPrompt(Tail(sorted), e)
    ELSE <<e>> \o sorted
RECURSIVE SortPrompts(_)
SortPrompts(entries) ==
    IF entries = <<>> THEN <<>>
    ELSE InsertPrompt(SortPrompts(SubSeq(entries, 1, Len(entries) - 1)),
                      entries[Len(entries)])

\* What the catch of the handler answers.
NoHistory ==
    [status |-> 200, data |-> <<>>, total |-> 0, limit |-> DefaultLimit, offset |-> 0,
     hasMore |-> FALSE]

\* The response of GET /history for a query of limit, offset and project
\* (no search, startDate or endDate), every entry carrying a timestamp.  A
\* `null` among the entries is a TypeError in the project filter, and in
\* the comparator of the sort when there are two entries or more; the
\* catch answers as for a file that cannot be read.
HistoryResponse(file, q) ==
    LET parsed   == ParsedPrompts(file.lines)
        hasNull  == \E i \in 1..Len(parsed) : parsed[i].k = "null"
        filtered == IF q.project = <<>> \/ hasNull THEN parsed
                    ELSE FilterPrompts(parsed, q.project)
        throws   == hasNull /\ (q.project # <<>> \/ Len(parsed) >= 2)
        entries  == IF throws THEN <<>> ELSE SortPrompts(filtered)
        limit    == QueryLimit(q)
        offset   == QueryOffset(q)
    IN  IF ~file.readable \/ throws THEN NoHistory
        ELSE [status  |-> 200,
              data    |-> Slice(entries, offset, offset + limit),
              total   |-> Len(entries),
              limit   |-> limit,
              offset  |-> offset,
              hasMore |-> offset + limit < Len(entries)]

NoHistoryQuery == [limit |-> Undefined, offset |-> Undefined, project |-> <<>>]
NotReadingHistory == [pc |-> "idle", query |-> NoHistoryQuery]

HistoryIdle ==
    /\ historyFile = [readable |-> FALSE, lines |-> <<>>]
    /\ historyScan = NotReadingHistory
    /\ historyPage = NotAsked

\* GET /history with the query q arrives: the handler runs up to the
\* readFile of history.jsonl.
GetHistoryFor(q) ==
    /\ historyScan.pc = "idle" /\ historyPage = NotAsked
    /\ historyScan' = [pc |-> "readFile", query |-> q]
    /\ UNCHANGED <<historyFile, historyPage>>
    /\ UNCHANGED <<readerVars, corrVars, projectVars, codecVars, settingsVars, sessionVars,
                   filesVars>>

\* readFile settles and the handler answers.
HistoryRead ==
    /\ historyScan.pc = "readFile"
    /\ historyPage' = HistoryResponse(historyFile, historyScan.query)
    /\ historyScan' = [historyScan EXCEPT !.pc = "done"]
    /\ UNCHANGED historyFile
    /\ UNCHANGED <<readerVars, corrVars, projectVars, codecVars, settingsVars, sessionVars,
                   filesVars>>

\* The file system when the server starts: the directories around the
\* home directory and the one the server is installed in, without .config
\* or with the settings an earlier PUT saved.
SettingsStart ==
    /\ cwd \in WorkingDirs
    /\ \E saved \in BOOLEAN :
          /\ fileTree =
                IF saved
                THEN TreeWith(TreeWith(TreeWith(HomeTree, AppDir, "directory"),
                                       ConfigDir, "directory"),
                              ConfigPath, "file")
                ELSE TreeWith(HomeTree, AppDir, "directory")
          /\ appSettings = IF saved THEN Stringify(<<"old">>) ELSE <<>>
    /\ settingsResponse = NotPut
    /\ put = NotPutting
    /\ savedSettings = NotAsked /\ settingsScan = "idle"

\* The history files of the core: none, prompts of two projects beside a
\* blank and a malformed line, and a `null` beside a prompt.
CoreHistoryFiles ==
    {[readable |-> FALSE, lines |-> <<>>],
     [readable |-> TRUE, lines |->
        <<Prompt(1, <<"/", "a">>), BlankPrompt, MalformedPrompt, Prompt(2, <<"/", "b">>)>>],
     [readable |-> TRUE, lines |-> <<NullPrompt, Prompt(1, <<"/", "a">>)>>]}

\* The pages of the history asked for: the default one, all of it and of one
\* project.
HistoryQueries ==
    {NoHistoryQuery, [limit |-> 1, offset |-> 1, project |-> <<>>],
     [limit |-> Undefined, offset |-> Undefined, project |-> <<"/", "a">>]}

GetHistory == \E q \in HistoryQueries : GetHistoryFor(q)

\* The requests for a file or a listing the core is asked: the listing of
\* ~/.claude, a file under it, and a plan.
CoreFileRequests ==
    {[endpoint |-> "files", path |-> <<>>],
     [endpoint |-> "readClaudeFile", path |-> <<ClaudeName, FileName>>],
     [endpoint |-> "plans", path |-> <<PlanName>>]}

\* The session tree and the config document the requests of the core are
\* served from: a session, its todos, one project directory and its config.
CoreStart ==
    /\ fileState \in {"ok", "missing"}
    /\ transcript = IF fileState = "ok" THEN <<JsonLine("user", 1, NoModel)>> ELSE <<>>
    /\ now = MaxTs + 1
    /\ bounds = NotRead /\ messages = <<>> /\ detail = NotRead
    /\ detailPc = "idle" /\ toolWrites = 0
    /\ messageList = NotRead /\ messageScan = NotListingMessages
    /\ todosStore = [listable |-> TRUE, entries |->
                        <<TodoFile(SessionId \o DotJson, TRUE, SingleDoc)>>]
    /\ historyStore = Unlistable /\ debugStore = Unlistable /\ plansStore = Unlistable
    /\ probes = [p \in ProbeNames |-> Idle]
    /\ storeWrites = 0
    /\ order = <<>>
    /\ corr = NotCalled
    /\ configFile = [readable |-> TRUE, isNull |-> FALSE, hasProjects |-> TRUE,
                     projects |-> <<[path |-> <<"/", "a">>, meta |-> MetaAt(1)]>>]
    /\ projectsStore = [listable |-> TRUE, entries |->
          <<StoreEntry(<<"-", "a">>,
                       [isDirectory |-> TRUE, listable |-> TRUE, files |->
                          <<SessionFile(<<"s", "1">> \o DotJsonl, 1, TRUE)>>])>>]
    /\ pathLookup = EmptyMap
    /\ query = NoQuery
    /\ listing = NotListed
    /\ scan = NotScanning
    /\ treeWrites = 0
    /\ sessionDir = [listable |-> TRUE, files |-> FilesAt(<<1>>)]
    /\ clock = 2 * DayLength
    /\ sessionLists = [t \in TypeFilters |-> NotAsked]
    /\ activity = NotAsked
    /\ sessionScan = NotServing
    /\ dirWrites = 0
    /\ sessionRequests = 0
    /\ historyFile \in CoreHistoryFiles
    /\ historyScan = NotReadingHistory
    /\ historyPage = NotAsked
    /\ fileRequest \in CoreFileRequests
    /\ fileResponse = NotAsked
    /\ browse = NotBrowsing
    /\ fileWrites = 0
    /\ rawConfig = JsonObject(<<Field(<<"a", "p", "i", "K", "e", "y">>, JsonString(<<"v">>))>>)
    /\ configResponse = NotAsked /\ configPc = "idle" /\ configWrites = 0

---------------------------------------------------------------------------
(* Specifications *)

ReaderIdle ==
    /\ fileState = "missing" /\ transcript = <<>> /\ now = MaxTs + 1
    /\ bounds = NotRead /\ messages = <<>> /\ detail = NotRead
    /\ detailPc = "idle" /\ toolWrites = 0
    /\ messageList = NotRead /\ messageScan = NotListingMessages

\* The transcript reader serving one request.
ReaderInit ==
    /\ ReaderStart /\ configFile \in {NoConfigFile, NullConfigFile} /\ ProjectsQuiet
    /\ CorrIdle /\ CodecIdle /\ SettingsIdle /\ HistoryIdle /\ SessionsIdle /\ FilesIdle
\* The steps of the handler of the session detail.
DetailSteps ==
    \/ GetSessionDetail \/ DetailConfigRead \/ DetailStat
    \/ DetailBounds \/ DetailMetadata \/ DetailRespond
ReaderNext == DetailSteps \/ SessionToolWrites
SpecReader == ReaderInit /\ [][ReaderNext]_vars

\* One call of the session correlator.
CorrInit == CorrStart /\ ReaderIdle /\ ProjectsIdle /\ CodecIdle /\ SettingsIdle /\ HistoryIdle /\ SessionsIdle /\ FilesIdle
CorrSteps == CorrelateSessionData \/ ProbeResumes \/ CorrelateSettles
CorrNext ==
    \/ CorrSteps
    \/ TodosStoreChanges \/ HistoryStoreChanges \/ DebugStoreChanges \/ PlansStoreChanges
SpecCorrelator == CorrInit /\ [][CorrNext]_vars

OthersIdle ==
    ReaderIdle /\ ProjectsIdle /\ CodecIdle /\ SettingsIdle /\ HistoryIdle /\ SessionsIdle /\ FilesIdle

\* One call of the correlator on every todos store, the store changing
\* under it.
TodosInit == TodosStart /\ OthersIdle
TodosNext == CorrSteps \/ TodosStoreChanges
SpecTodos == TodosInit /\ [][TodosNext]_vars

\* One call on every file-history store.
HistoryInit == HistoryStart /\ OthersIdle
HistoryNext == CorrSteps \/ HistoryStoreChanges
SpecHistory == HistoryInit /\ [][HistoryNext]_vars

\* One call on every debug store.
DebugInit == DebugStart /\ OthersIdle
DebugNext == CorrSteps \/ DebugStoreChanges
SpecDebug == DebugInit /\ [][DebugNext]_vars

\* One call on every plans store.
PlansInit == PlansStart /\ OthersIdle
PlansNext == CorrSteps \/ PlansStoreChanges
SpecPlans == PlansInit /\ [][PlansNext]_vars

\* The project listing serving one request.
ProjectsInit == ProjectsStart /\ ReaderIdle /\ CorrIdle /\ CodecIdle /\ SettingsIdle /\ HistoryIdle /\ SessionsIdle /\ FilesIdle
\* The steps of the handler of GET /projects after the request arrived.
ListingSteps ==
    ProjectsListed \/ ProjectsConfigRead \/ DirectoryListed \/ FileStatted \/ ProjectsRespond
ProjectsNext == ListProjects \/ ListingSteps \/ ProjectsStoreChanges \/ ConfigFileChanges
SpecProjects == ProjectsInit /\ [][ProjectsNext]_vars

\* The project listing sorting and paging several directories.
ListingInit == ListingStart /\ ReaderIdle /\ CorrIdle /\ CodecIdle /\ SettingsIdle /\ HistoryIdle /\ SessionsIdle /\ FilesIdle
ListingNext == ListProjectsPage \/ ListingSteps
SpecListing == ListingInit /\ [][ListingNext]_vars

\* A session asked for its detail and for its messages.
MessagesInit == MessagesStart /\ CorrIdle /\ ProjectsIdle /\ CodecIdle /\ SettingsIdle /\ HistoryIdle /\ SessionsIdle /\ FilesIdle
MessagesNext == DetailSteps \/ ListMessages \/ MessagesRead \/ SessionToolWrites
SpecMessages == MessagesInit /\ [][MessagesNext]_vars

\* Every request of the core and the settings PUT, in any order.
CoreInit == SettingsStart /\ CoreStart /\ CodecIdle /\ DisplayIdle

\* The requests received so far.
Asked(b) == IF b THEN 1 ELSE 0
CoreAsked ==
    Asked(detailPc # "idle") + Asked(messageScan.pc # "idle") + Asked(corr # NotCalled)
    + Asked(scan.pc # "idle") + sessionRequests + Asked(browse.pc # "idle")
    + Asked(configPc # "idle") + Asked(historyScan.pc # "idle")
    + Asked(put.pc # "idle") + Asked(settingsScan # "idle")

\* A request may arrive: fewer than MaxCoreRequests have.
CoreOpen == CoreAsked < MaxCoreRequests

\* A request arrives, or a handler resumes at the await it is suspended at.
CoreNext ==
    \/ CoreOpen /\ GetSessionDetail
    \/ CoreOpen /\ ListAllMessages
    \/ CoreOpen /\ CorrelateSessionData
    \/ CoreOpen /\ ListAllProjects
    \/ CoreOpen /\ ListAllSessions
    \/ CoreOpen /\ GetDefaultActivity
    \/ CoreOpen /\ BrowseFiles
    \/ CoreOpen /\ ReadClaudeFile
    \/ CoreOpen /\ GetPlan
    \/ CoreOpen /\ GetConfig
    \/ CoreOpen /\ GetHistory
    \/ CoreOpen /\ GetSettings
    \/ CoreOpen /\ PutSettings
    \/ DetailConfigRead \/ DetailStat \/ DetailBounds \/ DetailMetadata \/ DetailRespond
    \/ MessagesRead
    \/ ProbeResumes \/ CorrelateSettles
    \/ ProjectsListed \/ ProjectsConfigRead \/ DirectoryListed \/ FileStatted
    \/ ProjectsRespond
    \/ SessionsConfigRead \/ SessionDirListed \/ SessionFileStatted \/ SessionFileRead
    \/ SessionsAnswered
    \/ BrowseStatted \/ BrowseRead \/ ReadClaudeFileStatted \/ ReadClaudeFileRead
    \/ PlanRead \/ ConfigRead
    \/ HistoryRead \/ SettingsRead
    \/ SettingsParsed \/ SettingsMkdir \/ SettingsOpened \/ SettingsWritten
    \/ SettingsRespond
SpecCore == CoreInit /\ [][CoreNext]_vars

\* A path encoded, then decoded.
CodecInit == CodecStart /\ ReaderIdle /\ CorrIdle /\ ProjectsIdle /\ SettingsIdle /\ HistoryIdle /\ SessionsIdle /\ FilesIdle
CodecNext == Encode \/ Decode
SpecCodec == CodecInit /\ [][CodecNext]_vars

SessionsInit ==
    /\ SessionsStart
    /\ configFile \in {NoConfigFile, NullConfigFile}
    /\ ProjectsQuiet
    /\ ReaderIdle /\ CorrIdle /\ CodecIdle /\ SettingsIdle /\ HistoryIdle /\ FilesIdle
SessionsNext ==
    \/ ListSessions
    \/ SessionsConfigRead
    \/ SessionDirListed
    \/ SessionFileStatted
    \/ SessionFileRead
    \/ SessionsAnswered
    \/ Tick
    \/ SessionDirChanges
SpecSessions == SessionsInit /\ [][SessionsNext]_vars

\* GET /config on every config document.
ConfigInit ==
    ConfigStart /\ DisplayIdle /\ BrowseIdle /\ ReaderIdle /\ CorrIdle /\ ProjectsIdle
    /\ CodecIdle /\ SettingsIdle /\ HistoryIdle /\ SessionsIdle
ConfigNext == GetConfig \/ ConfigRead \/ ConfigChanges
SpecConfig == ConfigInit /\ [][ConfigNext]_vars

\* File browsing: one request of one of the three endpoints.
BrowseInit ==
    BrowseStart /\ DisplayIdle /\ ConfigIdle /\ ReaderIdle /\ CorrIdle /\ ProjectsIdle
    /\ CodecIdle /\ SettingsIdle /\ HistoryIdle /\ SessionsIdle
BrowseNext ==
    \/ BrowseFiles \/ BrowseStatted \/ BrowseRead
    \/ ReadClaudeFile \/ ReadClaudeFileStatted \/ ReadClaudeFileRead
    \/ GetPlan \/ PlanRead \/ FilesChange
SpecBrowse == BrowseInit /\ [][BrowseNext]_vars

\* getDisplayPath on every path of up to MaxPathLen characters.
DisplayInit ==
    DisplayStart /\ BrowseIdle /\ ConfigIdle /\ ReaderIdle /\ CorrIdle /\ ProjectsIdle
    /\ CodecIdle /\ SettingsIdle /\ HistoryIdle /\ SessionsIdle
DisplayNext == DisplayPath
SpecDisplay == DisplayInit /\ [][DisplayNext]_vars

\* The activity rollup of a project directory, asked for again and again.
ActivityNext ==
    \/ GetActivity
    \/ SessionsConfigRead
    \/ SessionDirListed
    \/ SessionFileStatted
    \/ SessionFileRead
    \/ SessionsAnswered
    \/ Tick
    \/ SessionDirChanges
SpecActivity == SessionsInit /\ [][ActivityNext]_vars

---------------------------------------------------------------------------
(* Transcript reader: properties *)

\* The handler has answered for a transcript it could read, and the file
\* was the same at both of its reads: the session tool did not write to it
\* while the request was served.
HasRead == detail # NotRead /\ bounds # NotRead /\ fileState = "ok" /\ toolWrites = 0

\* A record with a valid timestamp: a parsed, non-snapshot line whose
\* timestamp denotes an instant.
IsStamped(line) ==
    /\ line.kind = "json" /\ line.type # Snapshot
    /\ line.timestamp \in 1..MaxTs
StampedRecords == SelectSeq(transcript, IsStamped)

\* C1: after a read, startTime is the timestamp of the first record (in file
\* order) that has a valid timestamp and endTime that of the last one,
\* whatever malformed, snapshot or timestamp-less lines surround them.
C1_BoundsAreFirstAndLastStamped ==
    (HasRead /\ StampedRecords # <<>>) =>
        /\ bounds.startTime = StampedRecords[1].timestamp
        /\ bounds.endTime = StampedRecords[Len(StampedRecords)].timestamp

\* C2: messageCount of getSessionBounds equals the length of the sequence
\* getSessionMessages returns for the same file.
C2_CountEqualsMessages ==
    HasRead => bounds.messageCount = Len(messages)

\* A valid, timestamped, non-snapshot line carrying a type.
IsValidRecord(line) ==
    /\ line.kind = "json" /\ line.type \in {"user", "assistant"}
    /\ line.timestamp \in 1..MaxTs
IsSnapshotLine(line) == line.kind = "json" /\ line.type = Snapshot
OnlyValidAndSnapshot ==
    \A k \in 1..Len(transcript) :
        IsValidRecord(transcript[k]) \/ IsSnapshotLine(transcript[k])
ValidRecords == SelectSeq(transcript, IsValidRecord)

\* C3: for a transcript made only of N valid records and M snapshot lines,
\* in any order, messageCount is N and the message sequence is the N valid
\* records in file order.
C3_SnapshotsCountForNothing ==
    (HasRead /\ OnlyValidAndSnapshot) =>
        /\ bounds.messageCount = Len(ValidRecords)
        /\ Len(messages) = Len(ValidRecords)
        /\ \A k \in 1..Len(ValidRecords) :
              /\ messages[k].type = ValidRecords[k].type
              /\ messages[k].timestamp = ValidRecords[k].timestamp
              /\ messages[k].model = ValidRecords[k].model

\* C3 witness: two valid records with a snapshot line between them were read.
C3_Witness ==
    /\ HasRead /\ OnlyValidAndSnapshot
    /\ Len(transcript) = 3
    /\ IsValidRecord(transcript[1]) /\ IsSnapshotLine(transcript[2])
    /\ IsValidRecord(transcript[3])
    /\ transcript[1].timestamp # transcript[3].timestamp
    /\ bounds.messageCount = 2 /\ Len(messages) = 2

\* A line the reader is to ignore: invalid JSON, or JSON with no timestamp
\* or with one that cannot be parsed.
IsIgnorable(line) ==
    \/ line.kind = "malformed"
    \/ line.kind = "json" /\ line.timestamp \in {Undefined, Unparsable}
InsertAt(content, pos, line) ==
    SubSeq(content, 1, pos) \o <<line>> \o SubSeq(content, pos + 1, Len(content))

\* C4: inserting an ignorable line at any position (the first included)
\* leaves the message sequence, startTime and endTime as they were.
C4_IgnorableLineChangesNothing ==
    HasRead =>
        \A pos \in 0..Len(transcript) : \A line \in {l \in Line : IsIgnorable(l)} :
            LET with == InsertAt(transcript, pos, line)
                b    == GetSessionBounds(fileState, with, now)
            IN  /\ GetSessionMessages(fileState, with) = messages
                /\ b.startTime = bounds.startTime
                /\ b.endTime = bounds.endTime

\* The transcript was written append-only: the instants of its timestamped
\* lines do not decrease in file order.
AppendOnly ==
    \A j, k \in 1..Len(transcript) :
        (j < k /\ transcript[j].timestamp \in 1..MaxTs
               /\ transcript[k].timestamp \in 1..MaxTs)
        => transcript[j].timestamp <= transcript[k].timestamp

\* C5: a session record the detail operation produces has
\* startTime <= endTime when endTime is present, so its duration is not
\* negative, and messageCount >= 0.  Stated for transcripts written
\* append-only, the ones the reader is specified for.
C5_StartNotAfterEnd ==
    (detail.status = 200 /\ AppendOnly /\ toolWrites = 0) =>
        /\ detail.messageCount >= 0
        /\ detail.endTime # Undefined =>
              (detail.startTime <= detail.endTime /\ detail.duration >= 0)

---------------------------------------------------------------------------
(* Session correlator: properties *)


\* No other process changed a store while the call was pending.
StoresUnchanged == storeWrites = 0

\* C6: whatever stores fail and in whatever order the probes complete, the
\* correlator never raises; it returns only once every probe has completed,
\* and each field of its record is what that store's probe yielded on its
\* own: the empty list or absent for a store that could not be listed.
C6_CorrelatorDegrades ==
    /\ corr.state # "rejected"
    /\ \A p \in ProbeNames : probes[p].state = "settled" => ~probes[p].threw
    /\ corr.state = "fulfilled" =>
          /\ \A p \in ProbeNames : probes[p].state = "settled"
          /\ Len(order) = Cardinality(ProbeNames)
          /\ {order[k] : k \in 1..Len(order)} = ProbeNames
          /\ corr.todos = probes["todos"].value
          /\ corr.filesChanged = probes["filesChanged"].value
          /\ corr.debugLogs = probes["debugLogs"].value
          /\ corr.linkedPlan = probes["linkedPlan"].value
          /\ corr.linkedSkill = NoPlan
          /\ StoresUnchanged =>
                /\ corr.filesChanged = FindSessionFilesChanged(historyStore, SessionId).value
                /\ ~todosStore.listable => corr.todos = <<>>
                /\ ~historyStore.listable => corr.filesChanged = NoFilesChanged
                /\ ~debugStore.listable => corr.debugLogs = <<>>
                /\ ~plansStore.listable => corr.linkedPlan = NoPlan

\* C6 witness: the correlator has returned with the todos store missing and
\* its probe the last to complete, the other stores having yielded data.
C6_Witness ==
    /\ corr.state = "fulfilled" /\ StoresUnchanged
    /\ ~todosStore.listable /\ corr.todos = <<>>
    /\ order[Len(order)] = "todos" /\ order[1] = "linkedSkill" /\ order[2] = "linkedPlan"
    /\ corr.filesChanged.present /\ corr.filesChanged.totalFiles = 2
    /\ Len(corr.debugLogs) = 1
    /\ corr.linkedPlan.found

---------------------------------------------------------------------------
(* Path resolution: properties *)

\* The listing has been served from a store it could list, and no other
\* process changed the store or the config while it was served.
HasListed == listing.status = 200 /\ treeWrites = 0

\* The keys of the config document the listing loaded.
LoadedKeys == ProjectKeys(GetClaudeConfig(configFile))

\* The last position, in key order, of a key with the encoding of key k.
LastWithEncodingOf(k) ==
    CHOOSE j \in 1..Len(LoadedKeys) :
        /\ EncodeProjectPath(LoadedKeys[j]) = EncodeProjectPath(LoadedKeys[k])
        /\ \A i \in (j + 1)..Len(LoadedKeys) :
              EncodeProjectPath(LoadedKeys[i]) # EncodeProjectPath(LoadedKeys[k])

\* C7 as stated: for every key p of the config's projects mapping, the
\* lookup built from the config maps encode(p) to p.
C7_LookupReturnsEveryKey ==
    HasListed =>
        \A k \in 1..Len(LoadedKeys) :
            /\ EncodeProjectPath(LoadedKeys[k]) \in DOMAIN pathLookup
            /\ pathLookup[EncodeProjectPath(LoadedKeys[k])] = LoadedKeys[k]

\* C7 amended: for every key p of the config's projects mapping, the lookup
\* maps encode(p) to the last key, in key order, whose encoding is
\* encode(p): to p itself when no later key has the same encoding.  The
\* lookup has no other entry.
C7_LookupReturnsLastKeyOfEncoding ==
    HasListed =>
        /\ \A k \in 1..Len(LoadedKeys) :
              /\ EncodeProjectPath(LoadedKeys[k]) \in DOMAIN pathLookup
              /\ pathLookup[EncodeProjectPath(LoadedKeys[k])]
                    = LoadedKeys[LastWithEncodingOf(k)]
              /\ (\A j \in (k + 1)..Len(LoadedKeys) :
                      EncodeProjectPath(LoadedKeys[j]) # EncodeProjectPath(LoadedKeys[k]))
                    => pathLookup[EncodeProjectPath(LoadedKeys[k])] = LoadedKeys[k]
        /\ DOMAIN pathLookup
              = {EncodeProjectPath(LoadedKeys[k]) : k \in 1..Len(LoadedKeys)}

\* A lookup built from two keys with one encoding, "/-" after "//": the
\* later key is the one it returns.
C7_Witness ==
    /\ HasListed
    /\ LoadedKeys = << <<"/", "/">>, <<"/", "-">> >>
    /\ pathLookup[<<"-", "-">>] = <<"/", "-">>

\* The config entry with key p, if there is one.
HasKey(p) == \E k \in 1..Len(LoadedKeys) : LoadedKeys[k] = p
MetaOfKey(p) ==
    (GetClaudeConfig(configFile)).projects[CHOOSE k \in 1..Len(LoadedKeys) :
                                               LoadedKeys[k] = p].meta

\* C8: every entry of the listing has the path the lookup holds for its
\* directory name when it holds one, and the naive decode of the name
\* otherwise; it carries config metadata exactly when the config has a key
\* equal to that path, and then that key's metadata.
C8_ResolutionPrefersLookup ==
    HasListed =>
        \A i \in 1..Len(listing.data) :
            LET e == listing.data[i]
                d == e.encodedPath
            IN  /\ (d \in DOMAIN pathLookup) => e.path = pathLookup[d]
                /\ (d \notin DOMAIN pathLookup) => e.path = DecodeProjectPath(d)
                /\ (e.lastCost # Undefined) <=> HasKey(e.path)
                /\ HasKey(e.path) =>
                      /\ e.lastCost = MetaOfKey(e.path).lastCost
                      /\ e.lastSessionId = MetaOfKey(e.path).lastSessionId
                /\ ~HasKey(e.path) => e.lastSessionId = "none"

\* A directory "--" listed under a config with the key "/-": the entry has
\* the config's path, not the decode "//", and the key's metadata.
C8_Witness ==
    /\ HasListed
    /\ Len(listing.data) = 1
    /\ listing.data[1].encodedPath = <<"-", "-">>
    /\ listing.data[1].path = <<"/", "-">>
    /\ listing.data[1].path # DecodeProjectPath(listing.data[1].encodedPath)
    /\ listing.data[1].lastCost # Undefined

\* C9: every entry of the listing carries an isOrphan flag, true exactly
\* when its path came from the naive decode (no config key encodes to the
\* directory name) and false when it came from the lookup.
C9_EntriesCarryIsOrphan ==
    HasListed =>
        \A i \in 1..Len(listing.data) :
            /\ "isOrphan" \in DOMAIN listing.data[i]
            /\ listing.data[i].isOrphan
                  = (listing.data[i].encodedPath \notin DOMAIN pathLookup)

---------------------------------------------------------------------------
(* Path codec: properties *)

Alphanumerics == {"a", "1"}

\* A path of separators and alphanumeric characters only.
IsPlainPath(p) == \A i \in 1..Len(p) : p[i] \in {"/"} \cup Alphanumerics

\* C10: decoding the encoding of a path made only of "/" and alphanumeric
\* characters gives the path back, be it absolute, relative, empty or with
\* repeated separators.
C10_RoundTripOnPlainPaths ==
    (codecPc = "decoded" /\ IsPlainPath(rtPath)) => rtDecoded = rtPath

\* A relative path with repeated separators has made the round trip.
C10_Witness ==
    /\ codecPc = "decoded"
    /\ rtPath = <<"a", "/", "/", "1">>
    /\ rtEncoded = <<"a", "-", "-", "1">>
    /\ rtDecoded = rtPath

\* C11: the encoded name has the length of the path and is the path with
\* every non-alphanumeric character (separator, dot, dash, ...) replaced by
\* "-", as the session tool names the directory.
C11_EncodeReplacesNonAlphanumerics ==
    (codecPc \in {"encoded", "decoded"}) =>
        /\ Len(rtEncoded) = Len(rtPath)
        /\ \A i \in 1..Len(rtPath) :
              rtEncoded[i] = IF rtPath[i] \in Alphanumerics THEN rtPath[i] ELSE "-"

---------------------------------------------------------------------------
(* Project listing: sort and pagination properties *)

Max(a, b) == IF a >= b THEN a ELSE b

\* The number of items the listing had before it was paged.
ListedCount == Len(Directories(projectsStore.entries))

\* C12 as stated: a listing of K items asked with limit L and offset O holds
\* exactly min(L, max(0, K - O)) items, hasMore is (O + L < K) and total
\* is K, whatever L and O.
C12_PageHoldsMinOfLimitAndRest ==
    HasListed =>
        /\ Len(listing.data) = Min(query.limit, Max(0, ListedCount - query.offset))
        /\ listing.hasMore = (query.offset + query.limit < ListedCount)
        /\ listing.total = ListedCount

\* The same for a limit from 1 to 100 and an offset that is not negative.
PageWithinLimitsAsClaimed ==
    (HasListed /\ query.limit \in 1..MaxLimit /\ query.offset >= 0) =>
        /\ Len(listing.data) = Min(query.limit, Max(0, ListedCount - query.offset))
        /\ listing.hasMore = (query.offset + query.limit < ListedCount)
        /\ listing.total = ListedCount

\* A store of two directories asked with limit=0 answered with both.
ZeroLimitServedAsDefault ==
    /\ HasListed
    /\ ListedCount = 2
    /\ query.limit = 0 /\ query.offset = 0
    /\ Len(listing.data) = 2
    /\ listing.limit = DefaultLimit

\* The value of an entry's sort key; Undefined when it has none.
SortKeyDefined(e, sortBy) == sortBy = "lastActivity" => e.lastActivity # Undefined

\* a is not after b by the key, in the direction asked.
InOrder(a, b, sortBy, sortOrder) ==
    LET le(x, y) ==
            IF sortBy = "name" THEN ~StrLess(y.name, x.name)
            ELSE IF sortBy = "sessionCount" THEN x.sessionCount <= y.sessionCount
            ELSE x.lastActivity <= y.lastActivity
    IN  IF sortOrder = "desc" THEN le(b, a) ELSE le(a, b)

\* The request asked for the whole list on one page.
WholeListOnPage == query.limit = Undefined /\ query.offset = Undefined

\* C13: for each sort key and direction, the entries that have a value for
\* the key are ordered by it in the direction asked, and every entry
\* without one comes after all entries with one, in both directions.
C13_UndefinedKeysSortLast ==
    (HasListed /\ WholeListOnPage) =>
        \A i, j \in 1..Len(listing.data) :
            i < j =>
                LET a == listing.data[i]
                    b == listing.data[j]
                IN  /\ (SortKeyDefined(a, query.sortBy) /\ SortKeyDefined(b, query.sortBy))
                          => InOrder(a, b, query.sortBy, query.sortOrder)
                    /\ ~SortKeyDefined(a, query.sortBy)
                          => ~SortKeyDefined(b, query.sortBy)

---------------------------------------------------------------------------
(* Missing sessions and unreadable transcripts: properties *)

\* C14: an endpoint addressed to a session that does not exist as a file
\* answers 404 (NOT_FOUND), never 200 with empty data: both the session
\* detail and the message listing.
C14_MissingSessionIsNotFound ==
    (fileState = "missing" /\ toolWrites = 0) =>
        /\ (detail # NotRead => detail.status = 404)
        /\ (messageList # NotRead => messageList.status = 404)

\* C15: when the transcript file cannot be read (missing, or no permission)
\* the reader raises nothing: getSessionMessages gave the empty sequence and
\* getSessionBounds gave messageCount 0, no endTime, no model and the
\* current time as startTime.
\* Stated of the two reads of the session detail: a read that finds the
\* file missing (removed since the handler's stat) or unreadable.
C15_UnreadableTranscriptDegrades ==
    [][/\ (detailPc = "bounds" /\ detailPc' = "metadata" /\ fileState # "ok") =>
            /\ bounds'.messageCount = 0
            /\ bounds'.endTime = Undefined
            /\ bounds'.model = NoModel
            /\ bounds'.startTime = now
       /\ (detailPc = "metadata" /\ detailPc' = "correlated" /\ fileState # "ok") =>
            messages' = <<>>]_vars

\* A session whose file exists but cannot be read was asked for: the
\* handler answered from the degraded bounds.
C15_Witness ==
    /\ detail # NotRead /\ bounds # NotRead
    /\ fileState = "unreadable"
    /\ bounds.startTime = now /\ bounds.messageCount = 0
    /\ messages = <<>>
    /\ detail.status = 200 /\ detail.startTime = now

---------------------------------------------------------------------------
(* Read-only core: properties *)

\* What the file system holds at ~/.claude, under it and at ~/.claude.json.
TreeOfClaude(tree) ==
    [loc \in {l \in DOMAIN tree : IsUnder(l, ClaudeDir) \/ l = Append(HomeDir, ClaudeJsonName)}
        |-> tree[loc]]

\* The session directory tree and the config document: the files and
\* stores the handlers read, every location of the file system at or under
\* ~/.claude, and the text of app.json when it lies there.
SessionTree ==
    <<fileState, transcript, todosStore, historyStore, debugStore, plansStore,
      projectsStore, configFile, sessionDir, historyFile, rawConfig,
      TreeOfClaude(fileTree),
      IF IsUnder(ConfigPath, ClaudeDir) THEN appSettings ELSE <<>>>>

\* C16: no request creates, modifies or deletes anything under the session
\* directory tree or the config document; the settings PUT, the only write,
\* goes to .config/app.json outside that tree.
C16_CoreWritesNothing == [][SessionTree' = SessionTree]_vars

\* A step that changes the file system is a step of the settings PUT, at
\* its mkdir or in its writeFile.
OnlyPutWrites ==
    (fileTree' # fileTree \/ appSettings' # appSettings) =>
        put.pc \in {"mkdir", "open", "write"}

\* Started outside ~/.claude, the server leaves the tree and the config
\* document as they are, and only the settings PUT writes: to .config and
\* .config/app.json of its working directory.
StartedOutsideWritesNothing ==
    [][/\ OnlyPutWrites
       /\ ~IsUnder(cwd, ClaudeDir) =>
             /\ SessionTree' = SessionTree
             /\ \A loc \in DOMAIN fileTree' :
                    KindAt(fileTree', loc) # KindAt(fileTree, loc) =>
                        loc \in {ConfigDir, ConfigPath}]_vars

\* Started in ~/.claude, the server has answered a settings PUT with the
\* settings, and they are in ~/.claude/.config/app.json.
SavedUnderClaudeDir ==
    /\ IsUnder(ConfigPath, ClaudeDir)
    /\ settingsResponse.status = 200
    /\ KindAt(fileTree, ConfigPath) = "file"
    /\ appSettings = Stringify(settingsResponse.pathPrefix)

---------------------------------------------------------------------------
(* Session correlator: properties of the probes *)

\* What one todo document contributes: its `todos` array, or its single
\* {content, status} record; nothing when it cannot be read or parsed.
DocContribution(readable, doc) ==
    IF ~readable \/ doc.k = "malformed" THEN <<>>
    ELSE IF doc.k = "list" THEN doc.todos
    ELSE IF doc.content # "" /\ doc.status # ""
    THEN <<[content |-> doc.content, status |-> doc.status]>>
    ELSE <<>>

\* What the .json files of a directory contribute, in listing order.
RECURSIVE DirContribution(_)
DirContribution(files) ==
    IF files = <<>> THEN <<>>
    ELSE DirContribution(SubSeq(files, 1, Len(files) - 1))
         \o (LET f == files[Len(files)] IN
             IF EndsWith(f.name, DotJson) THEN DocContribution(f.readable, f.doc)
             ELSE <<>>)

\* What one store entry contributes to the todos of session id.
EntryContribution(entry, id) ==
    IF ~StartsWith(entry.name, id) THEN <<>>
    ELSE IF entry.kind = "file"
    THEN (IF EndsWith(entry.name, DotJson)
          THEN DocContribution(entry.readable, entry.doc) ELSE <<>>)
    ELSE IF entry.readable THEN DirContribution(entry.files) ELSE <<>>

\* The concatenation of the contributions, in listing order.
RECURSIVE MergedTodos(_, _)
MergedTodos(entries, id) ==
    IF entries = <<>> THEN <<>>
    ELSE MergedTodos(SubSeq(entries, 1, Len(entries) - 1), id)
         \o EntryContribution(entries[Len(entries)], id)

\* C17: the todos returned for a session are the concatenation, over the
\* store entries whose name starts with the session id, in listing order,
\* of each entry's todos in document order; an entry that cannot be read or
\* parsed contributes nothing and does not remove the others.
C17_TodosAreMergedInListingOrder ==
    (probes["todos"].state = "settled" /\ todosStore.listable /\ StoresUnchanged) =>
        /\ ~probes["todos"].threw
        /\ probes["todos"].value = MergedTodos(todosStore.entries, SessionId)

\* A name of the form {hash}@v{integer}: a non-empty hash, "@v", digits.
IsBackupName(n) ==
    \E i \in 2..(Len(n) - 2) :
        /\ n[i] = "@" /\ n[i + 1] = "v"
        /\ \A j \in (i + 2)..Len(n) : n[j] \in Digits
\* Where its "@v" is.
BackupAt(n) ==
    CHOOSE i \in 2..(Len(n) - 2) :
        /\ n[i] = "@" /\ n[i + 1] = "v"
        /\ \A j \in (i + 2)..Len(n) : n[j] \in Digits
NameHash(n) == SubSeq(n, 1, BackupAt(n) - 1)
NameVersion(n) == ParseInt(SubSeq(n, BackupAt(n) + 2, Len(n)))
\* Such a name whose hash is written on one line.
IsOneLineBackupName(n) ==
    IsBackupName(n) /\ \A k \in 1..Len(NameHash(n)) :
                           NameHash(n)[k] \notin {"\n", "\r", "\\u2028", "\\u2029"}

\* The names of the session's file-history directory.
HistoryNames == IF historyStore.listable THEN historyStore.names ELSE <<>>
BackupNames == {HistoryNames[k] : k \in {j \in 1..Len(HistoryNames) : IsBackupName(HistoryNames[j])}}
OneLineBackupNames == {n \in BackupNames : IsOneLineBackupName(n)}

\* The probe's result v is one group per hash of the names, each name in
\* the group of its hash, each group in ascending version.
PathHash(p) == SubSeq(p, 9, Len(p) - 1)
GroupsAre(v, names) ==
    LET hashes == {NameHash(n) : n \in names}
    IN  /\ (names = {}) => v = NoFilesChanged
        /\ (names # {}) =>
              /\ v.present
              /\ v.totalFiles = Cardinality(hashes)
              /\ Len(v.files) = Cardinality(hashes)
              /\ {PathHash(v.files[g].path) : g \in 1..Len(v.files)} = hashes
              /\ \A g \in 1..Len(v.files) :
                    LET bs == v.files[g].backups
                        h  == PathHash(v.files[g].path)
                    IN  /\ {bs[x].backupFileName : x \in 1..Len(bs)}
                              = {n \in names : NameHash(n) = h}
                        /\ Len(bs) = Cardinality({n \in names : NameHash(n) = h})
                        /\ \A x \in 1..Len(bs) :
                              bs[x].version = NameVersion(bs[x].backupFileName)
                        /\ \A x, y \in 1..Len(bs) :
                              x < y => bs[x].version <= bs[y].version

OneLineBackupsGroupedByHash ==
    (probes["filesChanged"].state = "settled" /\ StoresUnchanged) =>
        /\ ~probes["filesChanged"].threw
        /\ GroupsAre(probes["filesChanged"].value, OneLineBackupNames)

\* The files of the debug-logs directory, in listing order.
DebugFiles == IF debugStore.listable THEN debugStore.files ELSE <<>>
\* The name holds the whole session id somewhere.
HoldsSessionId(name) ==
    \E i \in 1..(Len(name) - Len(SessionId) + 1) :
        \A j \in 1..Len(SessionId) : name[i + j - 1] = SessionId[j]
\* The name starts with the first eight characters of the session id.
StartsWithShortId(name) ==
    /\ Len(name) >= ShortIdLen
    /\ \A j \in 1..ShortIdLen : name[j] = SessionId[j]
MatchingAt == {k \in 1..Len(DebugFiles) :
                  HoldsSessionId(DebugFiles[k].name) \/ StartsWithShortId(DebugFiles[k].name)}
\* The first five matches in listing order, and those of them that can be read.
FirstMatchesAt ==
    LET m == MatchingAt
    IN  {k \in m : Cardinality({j \in m : j < k}) < 5}
ReadMatchesAt == {k \in FirstMatchesAt : DebugFiles[k].readable}

\* C19: the debug-log probe returns at most 5 snippets, each from a file
\* whose name contains the full session id or starts with its first 8
\* characters, taken from the first matches in listing order; a file named
\* by the 8-character prefix only is found, a file matching neither rule is
\* never returned.
C19_SnippetsComeFromFirstMatches ==
    (probes["debugLogs"].state = "settled" /\ StoresUnchanged) =>
        LET v    == probes["debugLogs"].value
            read == ReadMatchesAt
        IN  /\ ~probes["debugLogs"].threw
            /\ Len(v) <= 5
            /\ Len(v) = Cardinality(read)
            /\ \A k \in read :
                  v[Cardinality({j \in read : j < k}) + 1].file = DebugFiles[k].name
            /\ \A i \in 1..Len(v) :
                  HoldsSessionId(v[i].file) \/ StartsWithShortId(v[i].file)

\* More than five files matched, one of them by the prefix only and one of
\* the first five unreadable; a file holding the prefix elsewhere in its name
\* was listed too.
C19_Witness ==
    /\ probes["debugLogs"].state = "settled" /\ StoresUnchanged
    /\ Cardinality(MatchingAt) > 5
    /\ \E k \in ReadMatchesAt :
          /\ ~HoldsSessionId(DebugFiles[k].name)
          /\ StartsWithShortId(DebugFiles[k].name)
    /\ \E k \in FirstMatchesAt : ~DebugFiles[k].readable
    /\ \E k \in 1..Len(DebugFiles) : k \notin MatchingAt /\ Len(DebugFiles[k].name) > ShortIdLen
    /\ Len(probes["debugLogs"].value) = 4
    /\ probes["debugLogs"].value[1].file = ShortId \o <<".", "t">>

\* C20: every snippet the debug-log probe returns, header included, is at
\* most 5000 units long.
C20_SnippetsAreAtMostLimit ==
    (probes["debugLogs"].state = "settled") =>
        \A i \in 1..Len(probes["debugLogs"].value) :
            probes["debugLogs"].value[i].length <= 5000

\* The files of the plans directory, in listing order.
PlanFilesListed == IF plansStore.listable THEN plansStore.files ELSE <<>>
\* The name ends with ".md".
IsPlanName(name) ==
    /\ Len(name) >= 3
    /\ name[Len(name) - 2] = "." /\ name[Len(name) - 1] = "m" /\ name[Len(name)] = "d"
\* The plans that can be read and whose text holds the session id.
LinkedPlansAt ==
    {k \in 1..Len(PlanFilesListed) :
        /\ IsPlanName(PlanFilesListed[k].name)
        /\ PlanFilesListed[k].readable
        /\ HoldsSessionId(PlanFilesListed[k].content)}

\* C21: findLinkedPlan returns the first `.md` plan in listing order whose
\* readable text contains the session id, and nothing when no readable plan
\* contains it; an unreadable plan is skipped without hiding a later match.
C21_FirstLinkedPlanIsReturned ==
    (probes["linkedPlan"].state = "settled" /\ StoresUnchanged) =>
        LET v      == probes["linkedPlan"].value
            linked == LinkedPlansAt
        IN  /\ ~probes["linkedPlan"].threw
            /\ (linked = {}) => v = NoPlan
            /\ (linked # {}) =>
                  /\ v.found
                  /\ \E k \in linked :
                        /\ \A j \in linked : k <= j
                        /\ v.name = PlanFilesListed[k].name

\* An unreadable plan holding the id came first, two readable plans holding
\* it came later, and a file that is no plan held it too: the first readable
\* plan was returned.
C21_Witness ==
    /\ probes["linkedPlan"].state = "settled" /\ StoresUnchanged
    /\ Cardinality(LinkedPlansAt) >= 2
    /\ \E k \in 1..Len(PlanFilesListed) :
          /\ ~PlanFilesListed[k].readable
          /\ IsPlanName(PlanFilesListed[k].name)
          /\ \A j \in LinkedPlansAt : k < j
    /\ \E k \in 1..Len(PlanFilesListed) :
          /\ ~IsPlanName(PlanFilesListed[k].name)
          /\ HoldsSessionId(PlanFilesListed[k].content)
    /\ probes["linkedPlan"].value = [found |-> TRUE, name |-> <<"r", ".", "m", "d">>]

---------------------------------------------------------------------------
(* Session listing and activity: properties *)

\* The id begins with the six characters `agent-`.
BeginsWithAgent(id) ==
    /\ Len(id) >= 6
    /\ id[1] = "a" /\ id[2] = "g" /\ id[3] = "e" /\ id[4] = "n" /\ id[5] = "t"
    /\ id[6] = "-"

\* The listing of that type filter was asked for whole (the default page).
AskedWhole(t) ==
    /\ sessionLists[t].status # 0
    /\ sessionLists[t].query.limit = Undefined
    /\ sessionLists[t].query.offset = Undefined

\* The listing of that type filter was served within one instant.
ServedAtOnce(t) == sessionLists[t].at = sessionLists[t].until

\* The three listings were asked for whole and served at the same instant,
\* and no other process touched the directory.
AskedAllThree ==
    /\ AskedWhole("all") /\ AskedWhole("regular") /\ AskedWhole("agent")
    /\ ServedAtOnce("all") /\ ServedAtOnce("regular") /\ ServedAtOnce("agent")
    /\ sessionLists["all"].at = sessionLists["regular"].at
    /\ sessionLists["all"].at = sessionLists["agent"].at
    /\ dirWrites = 0

\* C22: a session is flagged as agent exactly when its id begins with
\* `agent-`, and the listings filtered with type=regular and type=agent
\* partition the type=all listing, each in the order of the full listing.
C22_AgentFlagPartitionsListing ==
    /\ \A t \in TypeFilters :
          sessionLists[t].status = 200 =>
              \A i \in 1..Len(sessionLists[t].response.data) :
                  LET s == sessionLists[t].response.data[i]
                  IN  s.isAgent <=> BeginsWithAgent(s.id)
    /\ AskedAllThree =>
          LET all     == sessionLists["all"].response
              regular == sessionLists["regular"].response
              agent   == sessionLists["agent"].response
          IN  /\ regular.status = all.status /\ agent.status = all.status
              /\ all.status = 200 =>
                    /\ regular.data = SelectSeq(all.data, LAMBDA s : ~BeginsWithAgent(s.id))
                    /\ agent.data = SelectSeq(all.data, LAMBDA s : BeginsWithAgent(s.id))
                    /\ Len(regular.data) + Len(agent.data) = Len(all.data)
                    /\ \A i \in 1..Len(regular.data) : \A j \in 1..Len(agent.data) :
                          regular.data[i] # agent.data[j]

\* Three sessions were listed: a regular one, an agent one, and one whose id
\* holds `agent-` without beginning with it, which is listed as regular.
C22_Witness ==
    /\ AskedAllThree
    /\ sessionLists["all"].status = 200
    /\ Len(sessionLists["all"].response.data) = 3
    /\ Len(sessionLists["agent"].response.data) = 1
    /\ \E i \in 1..Len(sessionLists["regular"].response.data) :
          sessionLists["regular"].response.data[i].id = <<"x">> \o AgentPrefix


\* The sessions of a directory that is read whole at one instant.
SessionsReadAt(dir, t) ==
    LET sessionFiles == GetSessionFiles(dir)
    IN  [i \in 1..Len(sessionFiles) |->
            LET f == FileNamed(dir, sessionFiles[i].name)[1]
            IN  SessionOf(f.name, GetSessionBounds(f.state, f.lines, t))]

\* The rollup was served within one instant from a config document that
\* can be read, and no other process touched the directory.
RollupServedAtOnce ==
    /\ activity.status # 0
    /\ activity.at = activity.until
    /\ dirWrites = 0
    /\ ~BuildPathLookupThrows(GetClaudeConfig(configFile))

\* The sessions the rollup was asked about: those of the directory that pass
\* the type filter of the request ('regular' when none is given).
RollupSessions ==
    LET all == SessionsReadAt(sessionDir, activity.at)
        t   == activity.query.type
    IN  IF t = "agent" THEN SelectSeq(all, LAMBDA s : BeginsWithAgent(s.id))
        ELSE IF t \in {"regular", "none"} THEN SelectSeq(all, LAMBDA s : ~BeginsWithAgent(s.id))
        ELSE all

\* The window asked for, in days: 14 when not given, never more than 90.
WindowDays ==
    IF activity.query.days = Undefined THEN 14
    ELSE IF activity.query.days > 90 THEN 90 ELSE activity.query.days

\* The positions of the sessions whose startTime lies in the window.
InWindowAt ==
    LET ss == RollupSessions
    IN  {i \in 1..Len(ss) :
            /\ ss[i].startTime >= 1
            /\ ss[i].startTime >= activity.at - WindowDays * DayLength}

RECURSIVE SumOfMessages(_, _)
SumOfMessages(ss, at) ==
    IF at = {} THEN 0
    ELSE LET i == CHOOSE k \in at : TRUE
         IN  ss[i].messageCount + SumOfMessages(ss, at \ {i})

RECURSIVE SumOfField(_, _, _)
SumOfField(days, k, totals) ==
    IF k > Len(days) THEN 0
    ELSE (IF totals THEN days[k].totalMessages ELSE days[k].sessionCount)
         + SumOfField(days, k + 1, totals)

\* C23: the activity rollup uses a trailing window of `days` days (14 when
\* not given, at most 90); every session passing the type filter whose
\* startTime lies in the window is in exactly one bucket, keyed by the UTC
\* date of its startTime; each bucket's sessionCount and totalMessages are
\* the count and the message sum of its sessions; the summary holds the sums
\* over the buckets and the largest bucket totalMessages.
C23_RollupBucketsWindowByDay ==
    RollupServedAtOnce =>
        LET ss   == RollupSessions
            in   == InWindowAt
            days == activity.response.data
        IN  /\ in # {} => activity.status = 200
            /\ activity.status = 200 =>
                  /\ \A i \in in :
                        Cardinality({k \in 1..Len(days) :
                            \E j \in 1..Len(days[k].sessions) :
                                days[k].sessions[j].id = ss[i].id}) = 1
                  /\ \A k \in 1..Len(days) :
                        LET mine == {i \in in : ss[i].startTime \div DayLength = days[k].date}
                        IN  /\ mine # {}
                            /\ {days[k].sessions[j].id : j \in 1..Len(days[k].sessions)}
                                  = {ss[i].id : i \in mine}
                            /\ days[k].sessionCount = Cardinality(mine)
                            /\ days[k].totalMessages = SumOfMessages(ss, mine)
                  /\ \A k, l \in 1..Len(days) : k # l => days[k].date # days[l].date
                  /\ activity.response.summary.totalSessions = SumOfField(days, 1, FALSE)
                  /\ activity.response.summary.totalMessages = SumOfField(days, 1, TRUE)
                  /\ \A k \in 1..Len(days) :
                        days[k].totalMessages <= activity.response.summary.maxDailyMessages
                  /\ \/ activity.response.summary.maxDailyMessages = 0 /\ days = <<>>
                     \/ \E k \in 1..Len(days) :
                           days[k].totalMessages = activity.response.summary.maxDailyMessages


---------------------------------------------------------------------------
(* Session correlator: shape of the todos, failure of one entry *)

TodoStatuses == {"pending", "in_progress", "completed"}

\* C24: every todo item the correlator returns has a content and a status
\* that is one of pending, in_progress, completed; entries of another shape,
\* elements of a `todos` array included, are not returned.
C24_TodosHaveContentAndStatus ==
    (probes["todos"].state = "settled" /\ ~probes["todos"].threw) =>
        \A i \in 1..Len(probes["todos"].value) :
            /\ probes["todos"].value[i].content # ""
            /\ probes["todos"].value[i].status \in TodoStatuses


\* A store entry matching the session id that is a directory whose listing fails.
FailedDirectoryAt ==
    {k \in 1..Len(todosStore.entries) :
        /\ StartsWith(todosStore.entries[k].name, SessionId)
        /\ todosStore.entries[k].kind = "dir"
        /\ ~todosStore.entries[k].readable}

\* C28: when a store entry matching the session id is a directory whose
\* listing fails, the todos of the other matching entries are still
\* returned: the failure of one entry does not empty the list.
C28_FailedDirectoryKeepsOtherTodos ==
    (/\ probes["todos"].state = "settled" /\ StoresUnchanged
     /\ todosStore.listable
     /\ FailedDirectoryAt # {}) =>
        /\ ~probes["todos"].threw
        /\ \A k \in 1..Len(todosStore.entries) :
              \A i \in 1..Len(EntryContribution(todosStore.entries[k], SessionId)) :
                  \E j \in 1..Len(probes["todos"].value) :
                      probes["todos"].value[j]
                          = EntryContribution(todosStore.entries[k], SessionId)[i]


---------------------------------------------------------------------------
(* Display path: properties *)

\* The path is the home directory or lies under it.
IsUnderHome(p) ==
    /\ Len(p) >= Len(Home)
    /\ \A i \in 1..Len(Home) : p[i] = Home[i]
    /\ Len(p) > Len(Home) => p[Len(Home) + 1] = "/"

\* C25: getDisplayPath(p) is `~` followed by the remainder of p when p is
\* the home directory or lies under it, and p unchanged for every other
\* path, a sibling whose name begins with the home directory's name included.
C25_DisplayPathAbbreviatesHomeOnly ==
    dpResult.done =>
        IF IsUnderHome(dpPath)
        THEN dpResult.value = <<"~">> \o SubSeq(dpPath, Len(Home) + 1, Len(dpPath))
        ELSE dpResult.value = dpPath


---------------------------------------------------------------------------
(* File browsing: properties *)

\* The location is ~/.claude or lies under it.
IsInClaudeDir(loc) ==
    /\ Len(loc) >= 2
    /\ loc[1] = <<"h">> /\ loc[2] = <<".", "c", "l", "a", "u", "d", "e">>

\* The location a requested path resolves to: `.` and `..` applied to the
\* segments after the endpoint's base directory (a leading `~/` of
\* readClaudeFile stands for the home directory).
RECURSIVE ResolvedFrom(_, _)
ResolvedFrom(base, segs) ==
    IF segs = <<>> THEN base
    ELSE IF segs[1] = <<".", ".">>
         THEN ResolvedFrom(IF base = <<>> THEN <<>> ELSE SubSeq(base, 1, Len(base) - 1),
                           Tail(segs))
    ELSE ResolvedFrom(Append(base, segs[1]), Tail(segs))
ResolvedLocation ==
    IF fileRequest.endpoint = "files"
    THEN ResolvedFrom(<<<<"h">>, <<".", "c", "l", "a", "u", "d", "e">>>>, fileRequest.path)
    ELSE IF fileRequest.endpoint = "plans"
    THEN ResolvedFrom(<<<<"h">>, <<".", "c", "l", "a", "u", "d", "e">>,
                        <<"p", "l", "a", "n", "s">>>>, fileRequest.path)
    ELSE ResolvedFrom(<<<<"h">>>>,
                      IF Len(fileRequest.path) >= 2 /\ fileRequest.path[1] = <<"~">>
                      THEN Tail(fileRequest.path) ELSE fileRequest.path)

\* Where the endpoint may read.
MayRead(loc) ==
    \/ IsInClaudeDir(loc)
    \/ /\ fileRequest.endpoint = "readClaudeFile"
       /\ loc = <<<<"h">>, <<".", "c", "l", "a", "u", "d", "e", ".", "j", "s", "o", "n">>>>

\* C29: the file-browse endpoint and readClaudeFile return a listing or file
\* content only for a location that, after normalization, is ~/.claude or
\* lies under it (or is ~/.claude.json for readClaudeFile); a request that
\* resolves elsewhere is rejected with an error and reads nothing.
C29_ReadsStayInClaudeDir ==
    (fileResponse.status # 0) =>
        /\ fileResponse.served => MayRead(fileResponse.location)
        /\ ~MayRead(ResolvedLocation) =>
              /\ fileResponse.type = "error"
              /\ ~fileResponse.served
              /\ ~fileResponse.touched


---------------------------------------------------------------------------
(* GET /config: properties *)

\* The keys of the model whose name contains a sensitive field name.
NamesASecret(key) ==
    key \in {<<"a", "p", "i", "K", "e", "y">>, <<"x", "T", "O", "K", "E", "N">>,
             <<"S", "E", "C", "R", "E", "T">>}

\* The document with the value of every such key replaced, at every depth,
\* in nested objects and in objects held in arrays.
RECURSIVE WithoutSecrets(_)
WithoutSecrets(value) ==
    IF value.k = "obj"
    THEN [value EXCEPT !.fields =
            [i \in 1..Len(value.fields) |->
                [key   |-> value.fields[i].key,
                 value |-> IF NamesASecret(value.fields[i].key)
                           THEN [k |-> "str",
                                 v |-> <<"[", "R", "E", "D", "A", "C", "T", "E", "D", "]">>,
                                 fields |-> <<>>, items |-> <<>>]
                           ELSE WithoutSecrets(value.fields[i].value)]]]
    ELSE IF value.k = "arr"
    THEN [value EXCEPT !.items = [i \in 1..Len(value.items) |-> WithoutSecrets(value.items[i])]]
    ELSE value

\* C30: in the response of GET /config no value stored under a key whose
\* name contains a sensitive field name appears: each is replaced by
\* `[REDACTED]` at any depth, in nested objects and in objects held in
\* arrays; every other value is returned unchanged.
C30_SecretsAreRedactedEverywhere ==
    (configResponse.status # 0 /\ rawConfig.k = "obj") =>
        configResponse.body = WithoutSecrets(rawConfig)


---------------------------------------------------------------------------
(* Session listing: requests served at different times *)

\* C26: two identical session-listing requests served at different times
\* against an unchanged session directory return identical data: a listing
\* that replaces an earlier one of the same query equals it, when no
\* process has touched the directory.
C26_SameRequestSameListing ==
    [][\A t \in TypeFilters :
          (/\ sessionLists[t].status # 0
           /\ sessionLists'[t].status # 0
           /\ sessionLists'[t].query = sessionLists[t].query
           /\ dirWrites' = 0)
          => sessionLists'[t].response = sessionLists[t].response]_vars


---------------------------------------------------------------------------
(* Project listing: a transcript that cannot be stat'ed *)

\* The directory of the store an entry of the listing was built for.
DirectoryOf(e) ==
    projectsStore.entries[CHOOSE k \in 1..Len(projectsStore.entries) :
                              /\ projectsStore.entries[k].isDirectory
                              /\ projectsStore.entries[k].name = e.encodedPath]

\* The positions of the transcript files of a directory whose stat succeeds.
StatableAt(d) ==
    IF ~d.listable THEN {}
    ELSE {k \in 1..Len(d.files) :
             /\ Len(d.files[k].name) >= 6
             /\ SubSeq(d.files[k].name, Len(d.files[k].name) - 5, Len(d.files[k].name))
                   = <<".", "j", "s", "o", "n", "l">>
             /\ d.files[k].statOk}

\* C27: a transcript file that cannot be stat'ed does not hide the others:
\* the sessionCount of every listed project is the number of its transcript
\* files whose stat succeeds, and its lastActivity is the latest of their
\* modification times.
C27_FailedStatKeepsOtherSessions ==
    HasListed =>
        \A i \in 1..Len(listing.data) :
            LET e  == listing.data[i]
                d  == DirectoryOf(e)
                ok == StatableAt(d)
            IN  /\ e.sessionCount = Cardinality(ok)
                /\ ok # {} =>
                      \E k \in ok :
                          /\ \A j \in ok : d.files[j].mtime <= d.files[k].mtime
                          /\ e.lastActivity = ToISOString(d.files[k].mtime)

=============================================================================
